---- MODULE Spec2Model ----
(***************************************************************************)
(* A model of the Dataworker of relayer-v2 (src/unnamed/part_000): the      *)
(* bundle data loader, the three root builders, and the two controllers     *)
(* proposeRootBundle and validateRootBundle, together with the clients      *)
(* they read (HubPool, ConfigStore, SpokePool, chain providers) and the     *)
(* multi-caller transaction queue they write.                               *)
(*                                                                          *)
(* Addresses are natural numbers (compareAddresses compares them as         *)
(* numbers); token amounts are small integers; Merkle roots and Markdown    *)
(* payloads are strings.                                                    *)
(***************************************************************************)
EXTENDS Integers, Sequences, FiniteSets, TLC

VARIABLES
  hubPool,              \* [rootBundleProposal]: the HubPool contract on chain
  hubPoolClient,        \* [isUpdated, currentTime, pendingRootBundle, nextBundleStartBlockNumber]
  configStoreClient,    \* [isUpdated]
  blockRangeEndBlockBuffer, \* constructor argument: chainId -> buffer, a partial map
  spokePoolEvents,      \* [deposits, fills]: the event logs the SpokePool clients index
  providerBlockNumber,  \* chainId -> the head block its provider reports
  transactions,         \* multiCallerClient: the transactions enqueued so far
  pc,                   \* "idle" | "proposeAwaitBlocks" | "validateAwaitBlocks"
  pendingQueries,       \* indices of the getBlockNumber() promises still outstanding
  latestBlockNumbers,   \* results of Promise.all, by index of the chain list
  cycle,                \* what the current or last cycle did (see NewCycle)
  cycles,               \* number of cycles started
  bundle                \* what the loader and the root builders were given and returned (see NewBundle)

vars == <<hubPool, hubPoolClient, configStoreClient, blockRangeEndBlockBuffer, spokePoolEvents,
          providerBlockNumber, transactions, pc, pendingQueries, latestBlockNumbers,
          cycle, cycles, bundle>>

----------------------------------------------------------------------------
(* Bounds of the model *)

MaxBlock == 2
MaxTime == 2
MaxCycles == 1
MaxBuffer == 1
Liveness == 1

----------------------------------------------------------------------------
(* Generic helpers *)

Min(a, b) == IF a < b THEN a ELSE b

Range(s) == {s[i] : i \in DOMAIN s}

RECURSIVE SeqSum(_)
SeqSum(s) == IF s = <<>> THEN 0 ELSE Head(s) + SeqSum(Tail(s))

\* Array.prototype.indexOf: the first index holding x, 0 when there is none.
IndexOf(s, x) ==
  IF \E i \in DOMAIN s : s[i] = x
  THEN CHOOSE i \in DOMAIN s : s[i] = x /\ \A j \in 1..(i - 1) : s[j] # x
  ELSE 0

\* Array.prototype.filter
RECURSIVE SelectIdx(_, _)
SelectIdx(s, keep) ==
  IF s = <<>> THEN <<>>
  ELSE LET n == Len(s)
           front == SelectIdx(SubSeq(s, 1, n - 1), keep)
       IN IF n \in keep THEN Append(front, s[n]) ELSE front

\* The ascending enumeration of a finite set of integers (Object.keys of an
\* object with integer-like keys enumerates them in ascending numeric order).
RECURSIVE AscendingSeq(_)
AscendingSeq(S) ==
  IF S = {} THEN <<>>
  ELSE LET m == CHOOSE x \in S : \A y \in S : x <= y
       IN <<m>> \o AscendingSeq(S \ {m})

----------------------------------------------------------------------------
(* Constructor arguments and protocol configuration *)

\* The fixed evaluation order of chains; chain 1 is mainnet, where the HubPool is.
chainIdListForBundleEvaluationBlockNumbers == <<1, 10>>

\* Keys of clients.spokePoolSigners.
spokePoolSigners == {1, 10}

\* (await hubPool.provider.getNetwork()).chainId
hubPoolChainId == 1

\* maxRefundCountOverride / maxL1TokenCountOverride: undefined is modelled as 0
\* (both are tested for truthiness), so the ConfigStore values are used.
maxRefundCountOverride == 0
maxL1TokenCountOverride == 0

\* The sentinel root of utils (EMPTY_MERKLE_ROOT).
EMPTY_MERKLE_ROOT == "0x0000000000000000000000000000000000000000000000000000000000000000"

\* toBNWei(1): the fixed-point unit of realizedLpFeePct and relayerFeePct. The
\* program's unit is 10^18; the model scales it to 10 (and amounts likewise).
toBNWei1 == 10

\* The token routes the HubPool client knows: one L1 token per "hundred", whose
\* L2 counterpart on chain c has address l1Token + c.
L1Tokens == {100, 200}

getDestinationTokenForL1TokenDestinationChainId(l1Token, chainId) == l1Token + chainId

getL1TokenCounterpartAtBlock(chainId, l2Token, block) == l2Token - chainId

\* ConfigStore values: the refund count was raised from 1 to 2 at mainnet block 2;
\* the others are the same at every block.
getMaxRefundCountForRelayerRefundLeafForBlock(block) == IF block < 2 THEN 1 ELSE 2

getMaxL1TokenCountForPoolRebalanceLeafForBlock(block) == 1

getTokenTransferThresholdForBlock(l1Token, block) == 15

\* compareAddresses(a, b): -1, 0 or 1.
compareAddresses(addressA, addressB) ==
  IF addressA > addressB THEN 1 ELSE IF addressA < addressB THEN -1 ELSE 0

\* getBlockRangeForChain(blockRanges, chain, chainIdList): the range at the
\* chain's index in the list.
getBlockRangeForChain(blockRangesForChains, chain, chainIdList) ==
  blockRangesForChains[IndexOf(chainIdList, chain)]

----------------------------------------------------------------------------
(* Events.  A deposit event of the SpokePool of originChainId, and a fill    *)
(* event of the SpokePool of destinationChainId; blockNumber is the block    *)
(* of the chain that emitted the event.                                      *)

Deposit(depositId, originChainId, destinationChainId, l1Token, amount, blockNumber) ==
  [depositId |-> depositId, originChainId |-> originChainId,
   destinationChainId |-> destinationChainId, depositor |-> 41, recipient |-> 42,
   originToken |-> getDestinationTokenForL1TokenDestinationChainId(l1Token, originChainId),
   destinationToken |-> getDestinationTokenForL1TokenDestinationChainId(l1Token, destinationChainId),
   amount |-> amount, relayerFeePct |-> 1, realizedLpFeePct |-> 1,
   blockNumber |-> blockNumber]

\* The relay data of a deposit: what a fill repeats of it.
RelayDataOf(d) ==
  [depositId |-> d.depositId, originChainId |-> d.originChainId,
   destinationChainId |-> d.destinationChainId, depositor |-> d.depositor,
   recipient |-> d.recipient, destinationToken |-> d.destinationToken,
   amount |-> d.amount, relayerFeePct |-> d.relayerFeePct,
   realizedLpFeePct |-> d.realizedLpFeePct]

FillWithBlock(d, fillAmount, totalFilledAmount, repaymentChainId, relayer, isSlowRelay, blockNumber) ==
  [depositId |-> d.depositId, originChainId |-> d.originChainId,
   destinationChainId |-> d.destinationChainId, depositor |-> d.depositor,
   recipient |-> d.recipient, destinationToken |-> d.destinationToken,
   amount |-> d.amount, relayerFeePct |-> d.relayerFeePct,
   realizedLpFeePct |-> d.realizedLpFeePct,
   fillAmount |-> fillAmount, totalFilledAmount |-> totalFilledAmount,
   repaymentChainId |-> repaymentChainId, relayer |-> relayer,
   isSlowRelay |-> isSlowRelay, blockNumber |-> blockNumber]

\* const { blockNumber, transactionIndex, logIndex, ...fill } = fillWithBlock
FillOf(f) ==
  [depositId |-> f.depositId, originChainId |-> f.originChainId,
   destinationChainId |-> f.destinationChainId, depositor |-> f.depositor,
   recipient |-> f.recipient, destinationToken |-> f.destinationToken,
   amount |-> f.amount, relayerFeePct |-> f.relayerFeePct,
   realizedLpFeePct |-> f.realizedLpFeePct,
   fillAmount |-> f.fillAmount, totalFilledAmount |-> f.totalFilledAmount,
   repaymentChainId |-> f.repaymentChainId, relayer |-> f.relayer,
   isSlowRelay |-> f.isSlowRelay]

----------------------------------------------------------------------------
(* SpokePool clients: each is a view of the event log of its chain. *)

\* The clients _constructSpokePoolClientsForBlockAndUpdate returns: one per chain
\* of the evaluation order, each updated.
_constructSpokePoolClientsForBlockAndUpdate(latestMainnetBlock) ==
  [chainId \in Range(chainIdListForBundleEvaluationBlockNumbers) |-> [isUpdated |-> TRUE]]

\* SpokePoolClient.getFillsWithBlockForOriginChain of the client of destinationChainId
getFillsWithBlockForOriginChain(events, destinationChainId, originChainId) ==
  SelectIdx(events.fills,
            {i \in DOMAIN events.fills :
               /\ events.fills[i].destinationChainId = destinationChainId
               /\ events.fills[i].originChainId = originChainId})

\* SpokePoolClient.getDepositForFill of the client of the fill's origin chain: the
\* deposit of the chain's whole history with the fill's (originChainId, depositId);
\* <<>> stands for undefined.
getDepositForFill(events, fill) ==
  LET found == {i \in DOMAIN events.deposits :
                  /\ events.deposits[i].originChainId = fill.originChainId
                  /\ events.deposits[i].depositId = fill.depositId}
  IN IF found = {} THEN <<>>
     ELSE <<events.deposits[CHOOSE i \in found : \A j \in found : i <= j]>>

\* getUniqueDepositsInRange: the origin client's deposits for the destination chain
\* inside the origin chain's block range, less those already collected.
getUniqueDepositsInRange(blockRangesForChains, originChainId, destinationChainId, chainIdList, events, existingDeposits) ==
  LET range == getBlockRangeForChain(blockRangesForChains, originChainId, chainIdList)
      ds == events.deposits
  IN SelectIdx(ds,
       {i \in DOMAIN ds :
          /\ ds[i].originChainId = originChainId
          /\ ds[i].destinationChainId = destinationChainId
          /\ ds[i].blockNumber >= range[1]
          /\ ds[i].blockNumber <= range[2]
          /\ ~\E j \in DOMAIN existingDeposits :
                /\ existingDeposits[j].originChainId = ds[i].originChainId
                /\ existingDeposits[j].depositId = ds[i].depositId
          \* the client's list holds each (originChainId, depositId) once
          /\ ~\E j \in 1..(i - 1) :
                /\ ds[j].originChainId = ds[i].originChainId
                /\ ds[j].depositId = ds[i].depositId})

----------------------------------------------------------------------------
(* FillUtils and DepositUtils *)

\* getRealizedLpFeeForFills([fill]): fillAmount * realizedLpFeePct / 1e18
getRealizedLpFeeForFill(fill) == (fill.fillAmount * fill.realizedLpFeePct) \div toBNWei1

\* getRefundForFills([fill]): fillAmount * (1e18 - realizedLpFeePct) / 1e18
getRefundForFill(fill) == (fill.fillAmount * (toBNWei1 - fill.realizedLpFeePct)) \div toBNWei1

\* getRefundInformationFromFill
getRefundInformationFromFill(fill, blockRangesForChains, chainIdList) ==
  LET chainToSendRefundTo ==
        IF fill.isSlowRelay THEN fill.destinationChainId ELSE fill.repaymentChainId
      endBlockForMainnet == getBlockRangeForChain(blockRangesForChains, 1, chainIdList)[2]
      l1TokenCounterpart ==
        getL1TokenCounterpartAtBlock(fill.destinationChainId, fill.destinationToken,
                                     endBlockForMainnet)
  IN [chainToSendRefundTo |-> chainToSendRefundTo,
      repaymentToken |->
        getDestinationTokenForL1TokenDestinationChainId(l1TokenCounterpart, chainToSendRefundTo)]

\* fillsToRefund is the list of its (repaymentChainId, l2TokenAddress) groups in
\* insertion order; refunds is the list of (relayer, amount) in insertion order.
GroupOf(fillsToRefund, chainId, token) ==
  IndexOf([i \in DOMAIN fillsToRefund |->
             <<fillsToRefund[i].repaymentChainId, fillsToRefund[i].l2TokenAddress>>],
          <<chainId, token>>)

\* updateFillsToRefundWithValidFill: append the fill to its group, add its LP fee
\* and its refund to the group's totals.
updateFillsToRefundWithValidFill(fillsToRefund, fill, chainToSendRefundTo, repaymentToken) ==
  LET g == GroupOf(fillsToRefund, chainToSendRefundTo, repaymentToken)
  IN IF g = 0
     THEN Append(fillsToRefund,
                 [repaymentChainId |-> chainToSendRefundTo, l2TokenAddress |-> repaymentToken,
                  fills |-> <<fill>>,
                  realizedLpFees |-> getRealizedLpFeeForFill(fill),
                  totalRefundAmount |-> getRefundForFill(fill),
                  refunds |-> <<>>])
     ELSE [fillsToRefund EXCEPT
             ![g].fills = Append(@, fill),
             ![g].realizedLpFees = @ + getRealizedLpFeeForFill(fill),
             ![g].totalRefundAmount = @ + getRefundForFill(fill)]

\* updateFillsToRefundWithSlowFill (called for the fills that are NOT slow relays):
\* add the fill's refund to its relayer's entry of the group's refunds.
updateFillsToRefundWithSlowFill(fillsToRefund, fill, chainToSendRefundTo, repaymentToken) ==
  LET g == GroupOf(fillsToRefund, chainToSendRefundTo, repaymentToken)
      refunds == fillsToRefund[g].refunds
      r == IndexOf([i \in DOMAIN refunds |-> refunds[i].relayer], fill.relayer)
  IN IF r = 0
     THEN [fillsToRefund EXCEPT
             ![g].refunds = Append(@, [relayer |-> fill.relayer,
                                      amount |-> getRefundForFill(fill)])]
     ELSE [fillsToRefund EXCEPT ![g].refunds[r].amount = @ + getRefundForFill(fill)]

\* updateUnfilledDepositsWithMatchedDeposit: one entry per (originChainId,
\* depositId), in insertion order, holding the least unfilled amount seen.
updateUnfilledDepositsWithMatchedDeposit(matchedFill, matchedDeposit, unfilledDepositsForOriginChain) ==
  LET u == unfilledDepositsForOriginChain
      k == IndexOf([i \in DOMAIN u |-> <<u[i].deposit.originChainId, u[i].deposit.depositId>>],
                   <<matchedDeposit.originChainId, matchedDeposit.depositId>>)
      unfilledAmount == matchedFill.amount - matchedFill.totalFilledAmount
      isFirstFill == matchedFill.fillAmount = matchedFill.totalFilledAmount
  IN IF k = 0
     THEN Append(u, [deposit |-> matchedDeposit, unfilledAmount |-> unfilledAmount,
                     hasFirstFillInRange |-> isFirstFill])
     ELSE [u EXCEPT ![k].unfilledAmount = Min(@, unfilledAmount),
                    ![k].hasFirstFillInRange = @ \/ isFirstFill]

\* flattenAndFilterUnfilledDepositsByOriginChain: origin chains ascending, the
\* deposits of a chain in insertion order, fully filled deposits dropped.
flattenAndFilterUnfilledDepositsByOriginChain(unfilledDepositsForOriginChain) ==
  LET u == unfilledDepositsForOriginChain
      chains == AscendingSeq({u[i].deposit.originChainId : i \in DOMAIN u})
      OfChain(c) == SelectIdx(u, {i \in DOMAIN u :
                                    /\ u[i].deposit.originChainId = c
                                    /\ u[i].unfilledAmount > 0})
      F[n \in 0..Len(chains)] == IF n = 0 THEN <<>> ELSE F[n - 1] \o OfChain(chains[n])
  IN F[Len(chains)]

\* getFillsInRange
getFillsInRange(fillsList, blockRangesForChains, chainIdList) ==
  SelectIdx(fillsList,
    {i \in DOMAIN fillsList :
       LET range == getBlockRangeForChain(blockRangesForChains,
                                          fillsList[i].destinationChainId, chainIdList)
       IN fillsList[i].blockNumber >= range[1] /\ fillsList[i].blockNumber <= range[2]})

----------------------------------------------------------------------------
(* Dataworker._loadData *)

NoError == ""

\* The checks of lines 59-67 alone: the clients inside the loops are not looked at
ChecksBeforeTheLoops(blockRangesForChains, spokePoolClients, clients) ==
  IF ~clients.hubPoolClient.isUpdated THEN "HubPoolClient not updated"
  ELSE IF ~clients.configStoreClient.isUpdated THEN "ConfigStoreClient not updated"
  ELSE IF \E i \in DOMAIN chainIdListForBundleEvaluationBlockNumbers :
            chainIdListForBundleEvaluationBlockNumbers[i] \notin DOMAIN spokePoolClients
       THEN "Missing spoke pool client for chain"
  ELSE IF Len(blockRangesForChains) # Len(chainIdListForBundleEvaluationBlockNumbers)
       THEN "Unexpected block range list length"
  ELSE NoError

\* The precondition checks of _loadData in the order the code makes them; NoError
\* when all pass. clients is [hubPoolClient, configStoreClient]; spokePoolClients
\* maps a chain to its client, and a chain outside its domain has none.
LoadDataError(blockRangesForChains, spokePoolClients, clients) ==
  LET chainIdList == chainIdListForBundleEvaluationBlockNumbers
      allChainIds == AscendingSeq(spokePoolSigners)
      Missing(c) == c \notin DOMAIN spokePoolClients
      Stale(c) == Missing(c) \/ ~spokePoolClients[c].isUpdated
      \* The first origin's iteration reads the origin client, then every other
      \* client as a destination.
      checked == IF allChainIds = <<>> THEN <<>>
                 ELSE <<allChainIds[1]>> \o
                      SelectIdx(allChainIds, {i \in DOMAIN allChainIds : i > 1})
      firstStale == IF \E i \in DOMAIN checked : Stale(checked[i])
                    THEN CHOOSE i \in DOMAIN checked :
                           Stale(checked[i]) /\ \A j \in 1..(i - 1) : ~Stale(checked[j])
                    ELSE 0
  IN IF ~clients.hubPoolClient.isUpdated THEN "HubPoolClient not updated"
     ELSE IF ~clients.configStoreClient.isUpdated THEN "ConfigStoreClient not updated"
     ELSE IF \E i \in DOMAIN chainIdList : Missing(chainIdList[i])
          THEN "Missing spoke pool client for chain"
     ELSE IF Len(blockRangesForChains) # Len(chainIdList)
          THEN "Unexpected block range list length"
     ELSE IF firstStale = 0 THEN NoError
     ELSE IF Missing(checked[firstStale])
          THEN "TypeError: Cannot read properties of undefined (reading 'isUpdated')"
     ELSE IF firstStale = 1 THEN "origin SpokePoolClient not updated"
     ELSE "destination SpokePoolClient not updated"

\* CreditFill saving a refund for the relayer of every fill, slow relays too
SlowRelayRefunded(fillsToRefund, fill, refundInformation) ==
  updateFillsToRefundWithSlowFill(
    updateFillsToRefundWithValidFill(fillsToRefund, fill,
                                     refundInformation.chainToSendRefundTo,
                                     refundInformation.repaymentToken),
    fill, refundInformation.chainToSendRefundTo, refundInformation.repaymentToken)

\* The matched fill of the range is credited: updateFillsToRefundWithValidFill
\* and, if the fill is not a slow relay, updateFillsToRefundWithSlowFill.
CreditFill(fillsToRefund, fill, refundInformation) ==
  IF ~fill.isSlowRelay
  THEN updateFillsToRefundWithSlowFill(
         updateFillsToRefundWithValidFill(fillsToRefund, fill,
                                          refundInformation.chainToSendRefundTo,
                                          refundInformation.repaymentToken),
         fill, refundInformation.chainToSendRefundTo, refundInformation.repaymentToken)
  ELSE updateFillsToRefundWithValidFill(fillsToRefund, fill,
                                        refundInformation.chainToSendRefundTo,
                                        refundInformation.repaymentToken)

\* LoadMatchedFill crediting the fills of the range before it looks at the match
CreditedBeforeMatch(acc, fillWithBlock, matchedDeposit, blockRangeForChain, blockRangesForChains) ==
  IF \/ fillWithBlock.blockNumber > blockRangeForChain[2]
     \/ fillWithBlock.blockNumber < blockRangeForChain[1]
  THEN IF matchedDeposit # <<>>
       THEN [acc EXCEPT !.allValidFills = Append(@, fillWithBlock)]
       ELSE [acc EXCEPT !.allInvalidFills = Append(@, fillWithBlock)]
  ELSE IF matchedDeposit # <<>>
       THEN [acc EXCEPT
               !.allValidFills = Append(@, fillWithBlock),
               !.fillsToRefund =
                  CreditFill(@, FillOf(fillWithBlock),
                             getRefundInformationFromFill(
                               FillOf(fillWithBlock), blockRangesForChains,
                               chainIdListForBundleEvaluationBlockNumbers)),
               !.unfilledDepositsForOriginChain =
                  updateUnfilledDepositsWithMatchedDeposit(
                    FillOf(fillWithBlock), matchedDeposit[1], @)]
       ELSE [acc EXCEPT
               !.allInvalidFills = Append(@, fillWithBlock),
               !.fillsToRefund =
                  CreditFill(@, FillOf(fillWithBlock),
                             getRefundInformationFromFill(
                               FillOf(fillWithBlock), blockRangesForChains,
                               chainIdListForBundleEvaluationBlockNumbers))]

\* LoadMatchedFill with the range taken as open at its ends
RangeEndsExcluded(acc, fillWithBlock, matchedDeposit, blockRangeForChain, blockRangesForChains) ==
  IF matchedDeposit # <<>>
  THEN IF \/ fillWithBlock.blockNumber >= blockRangeForChain[2]
          \/ fillWithBlock.blockNumber <= blockRangeForChain[1]
       THEN [acc EXCEPT !.allValidFills = Append(@, fillWithBlock)]
       ELSE [acc EXCEPT
               !.allValidFills = Append(@, fillWithBlock),
               !.fillsToRefund =
                  CreditFill(@, FillOf(fillWithBlock),
                             getRefundInformationFromFill(
                               FillOf(fillWithBlock), blockRangesForChains,
                               chainIdListForBundleEvaluationBlockNumbers)),
               !.unfilledDepositsForOriginChain =
                  updateUnfilledDepositsWithMatchedDeposit(
                    FillOf(fillWithBlock), matchedDeposit[1], @)]
  ELSE [acc EXCEPT !.allInvalidFills = Append(@, fillWithBlock)]

\* The body of the forEach over a destination client's fills (lines 111-152),
\* given the deposit the origin client matches the fill with (<<>>: none) and
\* the block range of the fill's destination chain.
LoadMatchedFill(acc, fillWithBlock, matchedDeposit, blockRangeForChain, blockRangesForChains) ==
  IF matchedDeposit # <<>>
  THEN IF \/ fillWithBlock.blockNumber > blockRangeForChain[2]
          \/ fillWithBlock.blockNumber < blockRangeForChain[1]
       THEN [acc EXCEPT !.allValidFills = Append(@, fillWithBlock)]
       ELSE [acc EXCEPT
               !.allValidFills = Append(@, fillWithBlock),
               !.fillsToRefund =
                  CreditFill(@, FillOf(fillWithBlock),
                             getRefundInformationFromFill(
                               FillOf(fillWithBlock), blockRangesForChains,
                               chainIdListForBundleEvaluationBlockNumbers)),
               !.unfilledDepositsForOriginChain =
                  updateUnfilledDepositsWithMatchedDeposit(
                    FillOf(fillWithBlock), matchedDeposit[1], @)]
  ELSE [acc EXCEPT !.allInvalidFills = Append(@, fillWithBlock)]

LoadFill(acc, fillWithBlock, blockRangesForChains, events) ==
  LoadMatchedFill(acc, fillWithBlock, getDepositForFill(events, fillWithBlock),
                  getBlockRangeForChain(blockRangesForChains,
                                        fillWithBlock.destinationChainId,
                                        chainIdListForBundleEvaluationBlockNumbers),
                  blockRangesForChains)

\* The body of the inner loop for one (origin, destination) pair (lines 88-153).
LoadPair(acc, originChainId, destinationChainId, blockRangesForChains, events) ==
  LET withDeposits ==
        [acc EXCEPT !.deposits = @ \o
           getUniqueDepositsInRange(blockRangesForChains, originChainId, destinationChainId,
                                    chainIdListForBundleEvaluationBlockNumbers, events, @)]
      fs == getFillsWithBlockForOriginChain(events, destinationChainId, originChainId)
      F[n \in 0..Len(fs)] ==
        IF n = 0 THEN withDeposits
        ELSE LoadFill(F[n - 1], fs[n], blockRangesForChains, events)
  IN F[Len(fs)]

\* The (origin, destination) pairs of the two nested loops over the chains of
\* spokePoolSigners (Object.keys: ascending), in loop order.
ChainPairs ==
  LET allChainIds == AscendingSeq(spokePoolSigners)
      n == Len(allChainIds)
  IN [k \in 1..(n * n) |->
        <<allChainIds[((k - 1) \div n) + 1], allChainIds[((k - 1) % n) + 1]>>]

\* LoadedData returning the unfilled deposits as the loops left them
UnfilledDepositsNotFiltered(error, acc) ==
  IF error # NoError
  THEN [error |-> error, fillsToRefund |-> <<>>, deposits |-> <<>>,
        unfilledDeposits |-> <<>>, allValidFills |-> <<>>, allInvalidFills |-> <<>>]
  ELSE [error |-> NoError,
        fillsToRefund |-> acc.fillsToRefund,
        deposits |-> acc.deposits,
        unfilledDeposits |-> acc.unfilledDepositsForOriginChain,
        allValidFills |-> acc.allValidFills,
        allInvalidFills |-> acc.allInvalidFills]

\* What _loadData returns and what it throws
LoadedData(error, acc) ==
  IF error # NoError
  THEN [error |-> error, fillsToRefund |-> <<>>, deposits |-> <<>>,
        unfilledDeposits |-> <<>>, allValidFills |-> <<>>, allInvalidFills |-> <<>>]
  ELSE [error |-> NoError,
        fillsToRefund |-> acc.fillsToRefund,
        deposits |-> acc.deposits,
        unfilledDeposits |->
          flattenAndFilterUnfilledDepositsByOriginChain(acc.unfilledDepositsForOriginChain),
        allValidFills |-> acc.allValidFills,
        allInvalidFills |-> acc.allInvalidFills]

\* _loadData: [error, fillsToRefund, deposits, unfilledDeposits, allValidFills,
\* allInvalidFills]; when error is not NoError the call threw and returned nothing.
_loadData(blockRangesForChains, spokePoolClients, clients, events) ==
  LET F[k \in 0..Len(ChainPairs)] ==
        IF k = 0
        THEN [deposits |-> <<>>, fillsToRefund |-> <<>>,
              unfilledDepositsForOriginChain |-> <<>>,
              allValidFills |-> <<>>, allInvalidFills |-> <<>>]
        ELSE IF ChainPairs[k][1] = ChainPairs[k][2] THEN F[k - 1]
        ELSE LoadPair(F[k - 1], ChainPairs[k][1], ChainPairs[k][2], blockRangesForChains,
                      events)
  IN LoadedData(LoadDataError(blockRangesForChains, spokePoolClients, clients),
                F[Len(ChainPairs)])

----------------------------------------------------------------------------
(* Merkle trees and sorting *)

\* tree.getHexRoot() of the tree the Merkle primitives build over the leaves: a
\* collision-free digest of the leaf list, the sentinel for the empty tree.
getHexRoot(leaves) ==
  IF leaves = <<>> THEN EMPTY_MERKLE_ROOT ELSE "0x" \o ToString(leaves)

\* Array.prototype.sort under a comparator that orders the entry at i before the
\* entry at j when <<i, j>> is in before: the stable sorted permutation.
StableSort(s, before) ==
  LET pos(i) == 1 + Cardinality({j \in DOMAIN s :
                        <<j, i>> \in before \/ (<<i, j>> \notin before /\ j < i)})
  IN [p \in DOMAIN s |-> s[CHOOSE i \in DOMAIN s : pos(i) = p]]

----------------------------------------------------------------------------
(* Dataworker.buildSlowRelayRoot *)

\* The comparator of lines 217-221, as "a sorts before b".
SlowRelayLess(relayA, relayB) ==
  IF relayA.originChainId = relayB.originChainId
  THEN relayA.depositId - relayB.depositId < 0
  ELSE relayA.originChainId - relayB.originChainId < 0

\* The leaves left in the order of the unfilled deposits
SlowRelayLeavesAsLoaded(slowRelayLeaves) ==
  slowRelayLeaves

\* [...slowRelayLeaves].sort(...)
SortedSlowRelayLeaves(slowRelayLeaves) ==
  StableSort(slowRelayLeaves,
             {pair \in (DOMAIN slowRelayLeaves) \X (DOMAIN slowRelayLeaves) :
                SlowRelayLess(slowRelayLeaves[pair[1]], slowRelayLeaves[pair[2]])})

\* What a builder returns for its leaves: [error, leaves, root]
Tree(leaves) == [error |-> NoError, leaves |-> leaves, root |-> getHexRoot(leaves)]

\* What a builder throws: [error, leaves, root]
Thrown(error) == [error |-> error, leaves |-> <<>>, root |-> ""]

\* buildSlowRelayRoot from the result of _loadData on
SlowRelayRootOf(data) ==
  IF data.error # NoError
  THEN Thrown(data.error)
  ELSE Tree(SortedSlowRelayLeaves([i \in DOMAIN data.unfilledDeposits |->
                                     RelayDataOf(data.unfilledDeposits[i].deposit)]))

buildSlowRelayRoot(blockRangesForChains, spokePoolClients, clients, events) ==
  SlowRelayRootOf(_loadData(blockRangesForChains, spokePoolClients, clients, events))

----------------------------------------------------------------------------
(* PoolRebalanceUtils.  Running balances and realized LP fees are functions    *)
(* on the set of (chainId, l1Token) pairs that have an entry.                  *)

AddTo(balances, key, amount) ==
  IF key \in DOMAIN balances
  THEN [balances EXCEPT ![key] = @ + amount]
  ELSE [k \in DOMAIN balances \cup {key} |-> IF k = key THEN amount ELSE balances[k]]

EmptyBalances == [k \in {} |-> 0]

Abs(x) == IF x < 0 THEN -x ELSE x

\* initializeRunningBalancesFromRelayerRepayments
initializeRunningBalancesFromRelayerRepayments(endBlockForMainnet, fillsToRefund) ==
  LET KeyOf(g) == <<g.repaymentChainId,
                    getL1TokenCounterpartAtBlock(g.repaymentChainId, g.l2TokenAddress,
                                                 endBlockForMainnet)>>
      F[n \in 0..Len(fillsToRefund)] ==
        IF n = 0 THEN [runningBalances |-> EmptyBalances, realizedLpFees |-> EmptyBalances]
        ELSE [runningBalances |->
                AddTo(F[n - 1].runningBalances, KeyOf(fillsToRefund[n]),
                      fillsToRefund[n].totalRefundAmount),
              realizedLpFees |->
                AddTo(F[n - 1].realizedLpFees, KeyOf(fillsToRefund[n]),
                      fillsToRefund[n].realizedLpFees)]
  IN F[Len(fillsToRefund)]

\* The excess a fill of the current bundle leaves of the slow fill a previous root
\* bundle sent for its deposit; 0 when there is none. The previous bundles of a
\* chain end right before its next bundle start block; a slow fill was sent when
\* the deposit's earliest fill, not itself a slow relay, lies in a previous bundle.
ExcessFromPreviousSlowFill(fill, allValidFills, blockRangesForChains, nextBundleStartBlockNumber) ==
  LET startBlock == nextBundleStartBlockNumber[fill.destinationChainId]
      range == getBlockRangeForChain(blockRangesForChains, fill.destinationChainId,
                                     chainIdListForBundleEvaluationBlockNumbers)
      same == {i \in DOMAIN allValidFills :
                 /\ allValidFills[i].originChainId = fill.originChainId
                 /\ allValidFills[i].depositId = fill.depositId}
      first == CHOOSE i \in same : \A j \in same :
                 \/ allValidFills[i].blockNumber < allValidFills[j].blockNumber
                 \/ (allValidFills[i].blockNumber = allValidFills[j].blockNumber /\ i <= j)
      before == {i \in same : allValidFills[i].blockNumber < startBlock}
      lastFillBeforeSlowFillIncludedInRoot ==
        CHOOSE i \in before : \A j \in before :
          allValidFills[i].totalFilledAmount >= allValidFills[j].totalFilledAmount
      amountSentForSlowFill ==
        fill.amount - allValidFills[lastFillBeforeSlowFillIncludedInRoot].totalFilledAmount
  IN IF \/ fill.blockNumber < range[1]
        \/ fill.blockNumber > range[2]
        \/ fill.blockNumber < startBlock
        \/ allValidFills[first].blockNumber >= startBlock
        \/ allValidFills[first].isSlowRelay
     THEN 0
     ELSE IF fill.isSlowRelay THEN amountSentForSlowFill - fill.fillAmount
     ELSE IF fill.totalFilledAmount = fill.amount THEN amountSentForSlowFill
     ELSE 0

\* subtractExcessFromPreviousSlowFillsFromRunningBalances
subtractExcessFromPreviousSlowFillsFromRunningBalances(runningBalances, allValidFills, blockRangesForChains, nextBundleStartBlockNumber) ==
  LET F[n \in 0..Len(allValidFills)] ==
        IF n = 0 THEN runningBalances
        ELSE LET fill == allValidFills[n]
                 excess == ExcessFromPreviousSlowFill(fill, allValidFills,
                                                      blockRangesForChains,
                                                      nextBundleStartBlockNumber)
             IN IF excess = 0 THEN F[n - 1]
                ELSE AddTo(F[n - 1],
                           <<fill.destinationChainId,
                             getL1TokenCounterpartAtBlock(fill.destinationChainId,
                                                          fill.destinationToken, 0)>>,
                           -excess)
  IN F[Len(allValidFills)]

\* updateRunningBalanceForDeposit
updateRunningBalanceForDeposit(runningBalances, deposit, updateAmount) ==
  AddTo(runningBalances,
        <<deposit.originChainId,
          getL1TokenCounterpartAtBlock(deposit.originChainId, deposit.originToken,
                                       deposit.blockNumber)>>,
        updateAmount)

\* The transfer-threshold policy.
getNetSendAmountForL1Token(transferThreshold, runningBalance) ==
  IF Abs(runningBalance) >= transferThreshold THEN runningBalance ELSE 0

getRunningBalanceForL1Token(transferThreshold, runningBalance) ==
  IF Abs(runningBalance) < transferThreshold THEN runningBalance ELSE 0

\* The constructor's tokenTransferThreshold: {} by default, so that the ConfigStore
\* value is used.
tokenTransferThreshold == [l1Token \in {} |-> 0]

TransferThresholdFor(l1Token, endBlockForMainnet) ==
  IF l1Token \in DOMAIN tokenTransferThreshold
  THEN tokenTransferThreshold[l1Token]
  ELSE getTokenTransferThresholdForBlock(l1Token, endBlockForMainnet)

maxL1TokenCountFor(endBlockForMainnet) ==
  IF maxL1TokenCountOverride # 0 THEN maxL1TokenCountOverride
  ELSE getMaxL1TokenCountForPoolRebalanceLeafForBlock(endBlockForMainnet)

\* The leaf of a chain for one group of its L1 tokens
PoolRebalanceLeaf(chainId, groupIndex, l1Tokens, endBlockForMainnet, runningBalances, realizedLpFees) ==
  [chainId |-> chainId, groupIndex |-> groupIndex,
   bundleLpFees |-> [i \in DOMAIN l1Tokens |->
      IF <<chainId, l1Tokens[i]>> \in DOMAIN realizedLpFees
      THEN realizedLpFees[<<chainId, l1Tokens[i]>>] ELSE 0],
   netSendAmounts |-> [i \in DOMAIN l1Tokens |->
      getNetSendAmountForL1Token(TransferThresholdFor(l1Tokens[i], endBlockForMainnet),
                                 runningBalances[<<chainId, l1Tokens[i]>>])],
   runningBalances |-> [i \in DOMAIN l1Tokens |->
      getRunningBalanceForL1Token(TransferThresholdFor(l1Tokens[i], endBlockForMainnet),
                                  runningBalances[<<chainId, l1Tokens[i]>>])],
   l1Tokens |-> l1Tokens]

\* The leaves of a chain: its L1 tokens ascending, in groups of at most
\* maxL1TokenCount.
PoolRebalanceLeavesOfChain(chainId, l1Tokens, maxL1TokenCount, endBlockForMainnet, runningBalances, realizedLpFees) ==
  [g \in 1..((Len(l1Tokens) + maxL1TokenCount - 1) \div maxL1TokenCount) |->
     PoolRebalanceLeaf(chainId, g - 1,
                       SubSeq(l1Tokens, (g - 1) * maxL1TokenCount + 1,
                              Min(Len(l1Tokens), g * maxL1TokenCount)),
                       endBlockForMainnet, runningBalances, realizedLpFees)]

\* leafId: the position in the list
WithLeafId(leaves) ==
  [i \in DOMAIN leaves |->
     [chainId |-> leaves[i].chainId, groupIndex |-> leaves[i].groupIndex,
      bundleLpFees |-> leaves[i].bundleLpFees,
      netSendAmounts |-> leaves[i].netSendAmounts,
      runningBalances |-> leaves[i].runningBalances,
      l1Tokens |-> leaves[i].l1Tokens, leafId |-> i - 1]]

\* constructPoolRebalanceLeaves: chains ascending; the L1 tokens of a chain
\* ascending, in groups of at most maxL1TokenCount; leafId in emission order.
constructPoolRebalanceLeaves(endBlockForMainnet, runningBalances, realizedLpFees) ==
  LET chains == AscendingSeq({k[1] : k \in DOMAIN runningBalances})
      F[n \in 0..Len(chains)] ==
        IF n = 0 THEN <<>>
        ELSE F[n - 1] \o
             PoolRebalanceLeavesOfChain(
               chains[n],
               AscendingSeq({k[2] : k \in {x \in DOMAIN runningBalances : x[1] = chains[n]}}),
               maxL1TokenCountFor(endBlockForMainnet), endBlockForMainnet,
               runningBalances, realizedLpFees)
  IN WithLeafId(F[Len(chains)])

----------------------------------------------------------------------------
(* Dataworker.buildPoolRebalanceRoot *)

\* What buildPoolRebalanceRoot returns: [error, runningBalances, realizedLpFees,
\* leaves, root]
PoolRebalanceTree(runningBalances, realizedLpFees, leaves) ==
  [error |-> NoError, runningBalances |-> runningBalances,
   realizedLpFees |-> realizedLpFees, leaves |-> leaves, root |-> getHexRoot(leaves)]

\* SubtractDeposits passing deposit.amount as the update, not its negation
DepositsAdded(runningBalances, deposits) ==
  LET D[n \in 0..Len(deposits)] ==
        IF n = 0 THEN runningBalances
        ELSE updateRunningBalanceForDeposit(D[n - 1], deposits[n], deposits[n].amount)
  IN D[Len(deposits)]

\* The deposits of the range are subtracted from the running balances of their
\* origin chains (lines 385-392).
SubtractDeposits(runningBalances, deposits) ==
  LET D[n \in 0..Len(deposits)] ==
        IF n = 0 THEN runningBalances
        ELSE updateRunningBalanceForDeposit(D[n - 1], deposits[n], deposits[n].amount * (-1))
  IN D[Len(deposits)]

\* The running balances after the three updates, with the fees (lines 365-392):
\* [runningBalances, realizedLpFees]
UpdatedRunningBalances(initial, data, blockRangesForChains, nextBundleStartBlockNumber) ==
  [runningBalances |->
     SubtractDeposits(
       subtractExcessFromPreviousSlowFillsFromRunningBalances(
         initial.runningBalances, data.allValidFills, blockRangesForChains,
         nextBundleStartBlockNumber),
       data.deposits),
   realizedLpFees |-> initial.realizedLpFees]

\* The leaves and the root for the final balances (lines 394-408)
PoolRebalanceRootFor(balances, endBlockForMainnet) ==
  PoolRebalanceTree(balances.runningBalances, balances.realizedLpFees,
                    constructPoolRebalanceLeaves(endBlockForMainnet,
                                                 balances.runningBalances,
                                                 balances.realizedLpFees))

\* buildPoolRebalanceRoot from the result of _loadData on
PoolRebalanceRootOf(data, endBlockForMainnet, blockRangesForChains, nextBundleStartBlockNumber) ==
  IF data.error # NoError
  THEN [error |-> data.error, runningBalances |-> EmptyBalances,
        realizedLpFees |-> EmptyBalances, leaves |-> <<>>, root |-> ""]
  ELSE PoolRebalanceRootFor(
         UpdatedRunningBalances(
           initializeRunningBalancesFromRelayerRepayments(endBlockForMainnet,
                                                          data.fillsToRefund),
           data, blockRangesForChains, nextBundleStartBlockNumber),
         endBlockForMainnet)

buildPoolRebalanceRoot(blockRangesForChains, spokePoolClients, clients, events) ==
  PoolRebalanceRootOf(
    _loadData(blockRangesForChains, spokePoolClients, clients, events),
    getBlockRangeForChain(blockRangesForChains, 1,
                          chainIdListForBundleEvaluationBlockNumbers)[2],
    blockRangesForChains, clients.hubPoolClient.nextBundleStartBlockNumber)

----------------------------------------------------------------------------
(* Dataworker.buildRelayerRefundRoot *)

\* _getAmountToReturnForRelayerRefundLeaf returning the net send amount when it is
\* positive
AmountToSendReturned(endBlockForMainnet, leafChainId, leafToken, poolRebalanceRunningBalances) ==
  LET l1TokenCounterpart ==
        getL1TokenCounterpartAtBlock(leafChainId, leafToken, endBlockForMainnet)
      runningBalanceForLeaf == poolRebalanceRunningBalances[<<leafChainId, l1TokenCounterpart>>]
      transferThreshold == TransferThresholdFor(l1TokenCounterpart, endBlockForMainnet)
      netSendAmountForLeaf == getNetSendAmountForL1Token(transferThreshold, runningBalanceForLeaf)
  IN IF netSendAmountForLeaf > 0 THEN netSendAmountForLeaf ELSE 0

\* _getAmountToReturnForRelayerRefundLeaf
_getAmountToReturnForRelayerRefundLeaf(endBlockForMainnet, leafChainId, leafToken, poolRebalanceRunningBalances) ==
  LET l1TokenCounterpart ==
        getL1TokenCounterpartAtBlock(leafChainId, leafToken, endBlockForMainnet)
      runningBalanceForLeaf == poolRebalanceRunningBalances[<<leafChainId, l1TokenCounterpart>>]
      transferThreshold == TransferThresholdFor(l1TokenCounterpart, endBlockForMainnet)
      netSendAmountForLeaf == getNetSendAmountForL1Token(transferThreshold, runningBalanceForLeaf)
  IN IF netSendAmountForLeaf * (-1) > 0 THEN netSendAmountForLeaf * (-1) ELSE 0

\* The comparator of lines 250-256 as "a sorts before b": refund amount
\* descending, then address ascending.
RefundLess(a, b) ==
  \/ a.amount > b.amount
  \/ (a.amount = b.amount /\ compareAddresses(a.relayer, b.relayer) < 0)

\* Object.keys(fillsToRefund) and, nested, Object.keys(fillsToRefund[chain]): the
\* repayment chains ascending, the tokens of a chain in insertion order.
FillsToRefundInKeyOrder(fillsToRefund) ==
  LET chains == AscendingSeq({fillsToRefund[i].repaymentChainId : i \in DOMAIN fillsToRefund})
      F[n \in 0..Len(chains)] ==
        IF n = 0 THEN <<>>
        ELSE F[n - 1] \o SelectIdx(fillsToRefund,
                           {i \in DOMAIN fillsToRefund :
                              fillsToRefund[i].repaymentChainId = chains[n]})
  IN F[Len(chains)]

maxRefundCountFor(endBlockForMainnet) ==
  IF maxRefundCountOverride # 0 THEN maxRefundCountOverride
  ELSE getMaxRefundCountForRelayerRefundLeafForBlock(endBlockForMainnet)

\* The sub-leaves for the sorted refunds of a group: one per maxRefundCount
\* refunds, the first carrying the amount to return (lines 262-281).
RefundSubLeaves(group, sortedRefunds, amountToReturn, maxRefundCount) ==
  [k \in 1..((Len(sortedRefunds) + maxRefundCount - 1) \div maxRefundCount) |->
     [groupIndex |-> (k - 1) * maxRefundCount,
      amountToReturn |-> IF k = 1 THEN amountToReturn ELSE 0,
      chainId |-> group.repaymentChainId,
      refundAmounts |->
        [j \in 1..(Min(Len(sortedRefunds), k * maxRefundCount) - (k - 1) * maxRefundCount) |->
           sortedRefunds[(k - 1) * maxRefundCount + j].amount],
      leafId |-> 0,
      l2TokenAddress |-> group.l2TokenAddress,
      refundAddresses |->
        [j \in 1..(Min(Len(sortedRefunds), k * maxRefundCount) - (k - 1) * maxRefundCount) |->
           sortedRefunds[(k - 1) * maxRefundCount + j].relayer]]]

\* The refunds sorted by their amounts alone, equal amounts in insertion order
SortedByAmountOnly(refunds) ==
  StableSort(refunds, {pair \in (DOMAIN refunds) \X (DOMAIN refunds) :
                         refunds[pair[1]].amount > refunds[pair[2]].amount})

\* Object.keys(refunds).sort(...), with the refund of each address
SortedRefunds(refunds) ==
  StableSort(refunds, {pair \in (DOMAIN refunds) \X (DOMAIN refunds) :
                         RefundLess(refunds[pair[1]], refunds[pair[2]])})

\* The sub-leaves of one (repaymentChainId, l2TokenAddress) group (lines 247-281).
RefundGroupLeaves(group, endBlockForMainnet, runningBalances) ==
  RefundSubLeaves(group, SortedRefunds(group.refunds),
                  _getAmountToReturnForRelayerRefundLeaf(
                    endBlockForMainnet, group.repaymentChainId, group.l2TokenAddress,
                    runningBalances),
                  maxRefundCountFor(endBlockForMainnet))

\* The (leaf, token) positions of the pool rebalance leaves, in forEach order
NetSendPositions(poolRebalanceLeaves) ==
  LET P[n \in 0..Len(poolRebalanceLeaves)] ==
        IF n = 0 THEN <<>>
        ELSE P[n - 1] \o [i \in DOMAIN poolRebalanceLeaves[n].netSendAmounts |-> <<n, i>>]
  IN P[Len(poolRebalanceLeaves)]

\* A leaf that returns the amount is added for every negative net send amount,
\* whether or not the pair has a leaf already
SeenLeafNotSkipped(relayerRefundLeaves, leaf, index, l2TokenCounterpart, endBlockForMainnet, runningBalances) ==
  IF leaf.netSendAmounts[index] >= 0
  THEN relayerRefundLeaves
  ELSE Append(relayerRefundLeaves,
              [groupIndex |-> 0, leafId |-> 0, chainId |-> leaf.chainId,
               amountToReturn |->
                 _getAmountToReturnForRelayerRefundLeaf(
                   endBlockForMainnet, leaf.chainId, l2TokenCounterpart, runningBalances),
               l2TokenAddress |-> l2TokenCounterpart,
               refundAddresses |-> <<>>, refundAmounts |-> <<>>])

\* The body of the inner forEach of lines 287-321 for the token at the index of
\* the leaf.
AddReturnOnlyLeaf(relayerRefundLeaves, leaf, index, l2TokenCounterpart, endBlockForMainnet, runningBalances) ==
  IF \/ leaf.netSendAmounts[index] >= 0
     \/ \E j \in DOMAIN relayerRefundLeaves :
          /\ relayerRefundLeaves[j].chainId = leaf.chainId
          /\ relayerRefundLeaves[j].l2TokenAddress = l2TokenCounterpart
  THEN relayerRefundLeaves
  ELSE Append(relayerRefundLeaves,
              [groupIndex |-> 0, leafId |-> 0, chainId |-> leaf.chainId,
               amountToReturn |->
                 _getAmountToReturnForRelayerRefundLeaf(
                   endBlockForMainnet, leaf.chainId, l2TokenCounterpart, runningBalances),
               l2TokenAddress |-> l2TokenCounterpart,
               refundAddresses |-> <<>>, refundAmounts |-> <<>>])

\* The leaves added for the pool rebalance leaves with a negative net send amount
\* and no refund leaf (lines 287-321).
ReturnOnlyLeavesAt(positions, relayerRefundLeaves, poolRebalanceLeaves, endBlockForMainnet, runningBalances) ==
  LET F[n \in 0..Len(positions)] ==
        IF n = 0 THEN relayerRefundLeaves
        ELSE AddReturnOnlyLeaf(
               F[n - 1], poolRebalanceLeaves[positions[n][1]], positions[n][2],
               getDestinationTokenForL1TokenDestinationChainId(
                 poolRebalanceLeaves[positions[n][1]].l1Tokens[positions[n][2]],
                 poolRebalanceLeaves[positions[n][1]].chainId),
               endBlockForMainnet, runningBalances)
  IN F[Len(positions)]

ReturnOnlyLeaves(relayerRefundLeaves, poolRebalanceLeaves, endBlockForMainnet, runningBalances) ==
  ReturnOnlyLeavesAt(NetSendPositions(poolRebalanceLeaves), relayerRefundLeaves,
                     poolRebalanceLeaves, endBlockForMainnet, runningBalances)

\* The comparator of lines 326-333 as "a sorts before b".
RefundLeafLess(leafA, leafB) ==
  IF leafA.chainId # leafB.chainId THEN leafA.chainId - leafB.chainId < 0
  ELSE IF compareAddresses(leafA.l2TokenAddress, leafB.l2TokenAddress) # 0
       THEN compareAddresses(leafA.l2TokenAddress, leafB.l2TokenAddress) < 0
  ELSE leafA.groupIndex - leafB.groupIndex < 0

\* The comparator throws when two leaves agree on chain, token and group index.
RefundLeafTie(leaves) ==
  \E i, j \in DOMAIN leaves :
    /\ i # j
    /\ leaves[i].chainId = leaves[j].chainId
    /\ leaves[i].l2TokenAddress = leaves[j].l2TokenAddress
    /\ leaves[i].groupIndex = leaves[j].groupIndex

\* The sorted leaves keep their groupIndex and count their leafId from 1
IndexedFromOneWithGroup(sorted) ==
  [i \in DOMAIN sorted |-> [sorted[i] EXCEPT !.leafId = i]]

\* The sorted leaves take their position as leafId and lose their groupIndex
\* (lines 334-338).
IndexedRefundLeaves(sorted) ==
  [i \in DOMAIN sorted |->
     [amountToReturn |-> sorted[i].amountToReturn, chainId |-> sorted[i].chainId,
      refundAmounts |-> sorted[i].refundAmounts, leafId |-> i - 1,
      l2TokenAddress |-> sorted[i].l2TokenAddress,
      refundAddresses |-> sorted[i].refundAddresses]]

\* The leaves left in the order in which the groups produced them
LeavesInInsertionOrder(relayerRefundLeaves) ==
  relayerRefundLeaves

\* [...relayerRefundLeaves].sort(...)
SortedRefundLeaves(relayerRefundLeaves) ==
  StableSort(relayerRefundLeaves,
             {pair \in (DOMAIN relayerRefundLeaves) \X (DOMAIN relayerRefundLeaves) :
                RefundLeafLess(relayerRefundLeaves[pair[1]], relayerRefundLeaves[pair[2]])})

\* The sort of lines 326-333 and what follows it
SortedRefundTree(relayerRefundLeaves) ==
  IF RefundLeafTie(relayerRefundLeaves)
  THEN Thrown("Unexpected leaf group indices match")
  ELSE Tree(IndexedRefundLeaves(SortedRefundLeaves(relayerRefundLeaves)))

\* The leaves of the groups in key order, one group after the other (lines 245-283)
RefundLeavesOfGroups(groups, endBlockForMainnet, runningBalances) ==
  LET A[n \in 0..Len(groups)] ==
        IF n = 0 THEN <<>>
        ELSE A[n - 1] \o RefundGroupLeaves(groups[n], endBlockForMainnet, runningBalances)
  IN A[Len(groups)]

\* relayerRefundLeaves as it stands before the sort of lines 325-333: the
\* sub-leaves of the groups, then the leaves that only return tokens, each with
\* its groupIndex.
RelayerRefundLeavesWithGroup(groups, poolRebalanceRoot, endBlockForMainnet) ==
  ReturnOnlyLeaves(
    RefundLeavesOfGroups(groups, endBlockForMainnet, poolRebalanceRoot.runningBalances),
    poolRebalanceRoot.leaves, endBlockForMainnet, poolRebalanceRoot.runningBalances)

\* buildRelayerRefundRoot from the results of _loadData and
\* buildPoolRebalanceRoot on
RelayerRefundRootOf(groups, poolRebalanceRoot, endBlockForMainnet) ==
  IF \E i \in DOMAIN groups :
       groups[i].refunds # <<>> /\ maxRefundCountFor(endBlockForMainnet) <= 0
  THEN Thrown("(the chunking loop does not terminate)")
  ELSE SortedRefundTree(
         RelayerRefundLeavesWithGroup(groups, poolRebalanceRoot, endBlockForMainnet))

\* buildRelayerRefundRoot, given what its call of _loadData returns or throws
RelayerRefundRootFrom(data, blockRangesForChains, spokePoolClients, clients, events) ==
  IF data.error # NoError
  THEN Thrown(data.error)
  ELSE RelayerRefundRootOf(
         FillsToRefundInKeyOrder(data.fillsToRefund),
         buildPoolRebalanceRoot(blockRangesForChains, spokePoolClients, clients, events),
         getBlockRangeForChain(blockRangesForChains, 1,
                               chainIdListForBundleEvaluationBlockNumbers)[2])

buildRelayerRefundRoot(blockRangesForChains, spokePoolClients, clients, events) ==
  RelayerRefundRootFrom(_loadData(blockRangesForChains, spokePoolClients, clients, events),
                        blockRangesForChains, spokePoolClients, clients, events)

----------------------------------------------------------------------------
(* Markdown payloads (FormattingUtils.ts and the _generateMarkdown* methods) *)

\* String.prototype.substring(0, 10)
shortenHexString(hexString) == SubSeq(hexString, 1, Min(10, Len(hexString)))

\* JSON.stringify of a list of numbers
JSONstringify(v) ==
  LET F[n \in 0..Len(v)] ==
        IF n = 0 THEN ""
        ELSE F[n - 1] \o (IF n > 1 THEN "," ELSE "") \o ToString(v[n])
  IN "[" \o F[Len(v)] \o "]"

\* getBlockRangePretty / bundleBlockRangePretty: one line per chain of the
\* evaluation order, holding the JSON text of the entry at the chain's index; an
\* index the list does not have prints as undefined.
getBlockRangePretty(jsonOfEntries) ==
  LET chainIdList == chainIdListForBundleEvaluationBlockNumbers
      F[n \in 0..Len(chainIdList)] ==
        IF n = 0 THEN ""
        ELSE F[n - 1] \o "\n\t\t" \o ToString(chainIdList[n]) \o ": " \o
             (IF n \in DOMAIN jsonOfEntries THEN jsonOfEntries[n] ELSE "undefined")
  IN F[Len(chainIdList)]

RangesJson(blockRanges) == [i \in DOMAIN blockRanges |-> JSONstringify(blockRanges[i])]

NumbersJson(numbers) == [i \in DOMAIN numbers |-> ToString(numbers[i])]

_generateMarkdownForDispute(pendingRootBundle) ==
  "Disputed pending root bundle:" \o
  "\n\tPoolRebalance leaf count: " \o ToString(pendingRootBundle.unclaimedPoolRebalanceLeafCount) \o
  "\n\tPoolRebalance root: " \o shortenHexString(pendingRootBundle.poolRebalanceRoot) \o
  "\n\tRelayerRefund root: " \o shortenHexString(pendingRootBundle.relayerRefundRoot) \o
  "\n\tSlowRelay root: " \o shortenHexString(pendingRootBundle.slowRelayRoot) \o
  "\n\tProposer: " \o shortenHexString(pendingRootBundle.proposer)

_generateMarkdownForDisputeInvalidBundleBlocks(pendingRootBundle, widestExpectedBlockRange, buffers) ==
  "Disputed pending root bundle because of invalid bundle blocks:" \o
  "\n\t*Widest possible expected block range*:" \o
     getBlockRangePretty(RangesJson(widestExpectedBlockRange)) \o
  "\n\t*Buffers to end blocks*:" \o getBlockRangePretty(NumbersJson(buffers)) \o
  "\n\t*Pending end blocks*:" \o
     getBlockRangePretty(NumbersJson(pendingRootBundle.bundleEvaluationBlockNumbers))

\* The leaves are printed one per line; their token amounts go through
\* convertFromWei and their addresses through shortenHexString, which the model
\* abbreviates to the number of leaves.
_generateMarkdownForRootBundle(bundleBlockRange, poolRebalanceLeaves, poolRebalanceRoot, relayerRefundLeaves, relayerRefundRoot, slowRelayLeaves, slowRelayRoot) ==
  "\n\t*Bundle blocks*:" \o getBlockRangePretty(RangesJson(bundleBlockRange)) \o
  "\n\t*PoolRebalance*:\n\t\troot:" \o shortenHexString(poolRebalanceRoot) \o
     "...\n\t\tleaves:" \o ToString(Len(poolRebalanceLeaves)) \o
  "\n\t*RelayerRefund*\n\t\troot:" \o shortenHexString(relayerRefundRoot) \o
     "...\n\t\tleaves:" \o ToString(Len(relayerRefundLeaves)) \o
  "\n\t*SlowRelay*\n\troot:" \o shortenHexString(slowRelayRoot) \o
     "...\n\t\tleaves:" \o ToString(Len(slowRelayLeaves))

\* String.prototype.includes
Includes(text, phrase) ==
  \E i \in 1..(Len(text) - Len(phrase) + 1) : SubSeq(text, i, i + Len(phrase) - 1) = phrase

----------------------------------------------------------------------------
(* The environment: event snapshots, pending proposals, configurations *)

Chains == Range(chainIdListForBundleEvaluationBlockNumbers)

\* hubPoolClient.getNextBundleStartBlockNumber: one past the end block of the last
\* executed bundle, which here ended at block 0 on every chain.
NextBundleStartBlockNumber == [chainId \in Chains |-> 1]

Relayer1 == 51
Relayer2 == 52

\* Deposit 0 of chain 1 to chain 10, partially filled in the previous bundle (a
\* slow fill of 10 was sent for it), then filled by a relayer and by the slow
\* relay; deposit 0 of chain 10 to chain 1, partially filled; a fill of chain 1
\* that matches no deposit.
DepositA == Deposit(0, 1, 10, 100, 20, 0)
DepositB == Deposit(0, 10, 1, 100, 30, 1)
NoDeposit == Deposit(9, 10, 1, 100, 30, 1)

SnapshotFull ==
  [deposits |-> <<DepositA, DepositB>>,
   fills |-> <<FillWithBlock(DepositA, 10, 10, 10, Relayer1, FALSE, 0),
               FillWithBlock(DepositA, 5, 15, 1, Relayer2, FALSE, 1),
               FillWithBlock(DepositA, 5, 20, 10, Relayer1, TRUE, 2),
               FillWithBlock(NoDeposit, 30, 30, 1, Relayer2, FALSE, 1),
               FillWithBlock(DepositB, 10, 10, 1, Relayer1, FALSE, 2)>>]

\* Only a fill that matches no deposit: no bundle has a leaf.
SnapshotQuiet ==
  [deposits |-> <<>>,
   fills |-> <<FillWithBlock(NoDeposit, 30, 30, 1, Relayer2, FALSE, 1)>>]

Snapshots == <<SnapshotFull, SnapshotQuiet>>

\* The end-block buffers a bot runner may configure: none, or one for chain 10.
BufferConfigs == {[chainId \in {} |-> 0], [chainId \in {10} |-> MaxBuffer]}

\* The clients of a cycle whose HubPool and ConfigStore clients are updated.
UpdatedClients ==
  [hubPoolClient |-> [isUpdated |-> TRUE,
                      nextBundleStartBlockNumber |-> NextBundleStartBlockNumber],
   configStoreClient |-> [isUpdated |-> TRUE]]

\* The three roots of a cycle: [error, blockRanges, poolRebalanceLeaves,
\* poolRebalanceRoot, relayerRefundLeaves, relayerRefundRoot, slowRelayLeaves,
\* slowRelayRoot]; the first build that throws ends the cycle.
ThreeRoots(blockRanges, pool, refund, slow) ==
  [error |-> IF pool.error # NoError THEN pool.error
             ELSE IF refund.error # NoError THEN refund.error
             ELSE slow.error,
   blockRanges |-> blockRanges,
   poolRebalanceLeaves |-> pool.leaves, poolRebalanceRoot |-> pool.root,
   relayerRefundLeaves |-> refund.leaves, relayerRefundRoot |-> refund.root,
   slowRelayLeaves |-> slow.leaves, slowRelayRoot |-> slow.root]

\* The three builds over the given ranges, in the controllers' order, with the
\* SpokePool clients constructed for the end block of mainnet.
BuildRootsWith(blockRanges, spokePoolClients, clients, events) ==
  ThreeRoots(blockRanges,
             buildPoolRebalanceRoot(blockRanges, spokePoolClients, clients, events),
             buildRelayerRefundRoot(blockRanges, spokePoolClients, clients, events),
             buildSlowRelayRoot(blockRanges, spokePoolClients, clients, events))

BuildRoots(blockRanges, clients, events) ==
  BuildRootsWith(blockRanges,
                 _constructSpokePoolClientsForBlockAndUpdate(
                   getBlockRangeForChain(blockRanges, 1,
                                         chainIdListForBundleEvaluationBlockNumbers)[2]),
                 clients, events)

EndBlocks == 0..MaxBlock

\* The end-block lists a proposal may carry: one of the expected length, or one
\* too short, or one too long.
EndBlockLists ==
  [1..Len(chainIdListForBundleEvaluationBlockNumbers) -> EndBlocks]
    \cup {<<0>>, [i \in 1..(Len(chainIdListForBundleEvaluationBlockNumbers) + 1) |-> 1]}

\* The ranges from the next bundle start blocks to the given end blocks (for a
\* list of another length: to its first entries, padded with block 0).
RangesEndingAt(ends) ==
  [i \in DOMAIN chainIdListForBundleEvaluationBlockNumbers |->
     <<NextBundleStartBlockNumber[chainIdListForBundleEvaluationBlockNumbers[i]],
       IF i \in DOMAIN ends THEN ends[i] ELSE 0>>]

\* What an honest proposer commits to for the given end blocks.
HonestRoots(events, ends) == BuildRoots(RangesEndingAt(ends), UpdatedClients, events)

\* A root no tree of the snapshots hashes to.
ForgedRoot == "0xf0f0f0f0f0f0f0f0f0f0f0f0f0f0f0f0f0f0f0f0f0f0f0f0f0f0f0f0f0f0f0f0"

Tampers == {"none", "emptyPoolRoot", "poolRoot", "leafCount", "refundRoot", "slowRoot",
            "refundAndSlowRoot"}

\* A root bundle proposal of the HubPool: the honest roots for its end blocks,
\* with one part changed.
TamperedProposal(honest, ends, tamper, challengePeriodEndTimestamp) ==
  [proposer |-> "0x9A8f92a830A5cB89a3816e3D267CB7791c16b04D",
   challengePeriodEndTimestamp |-> challengePeriodEndTimestamp,
   bundleEvaluationBlockNumbers |-> ends,
   unclaimedPoolRebalanceLeafCount |->
     Len(honest.poolRebalanceLeaves) + (IF tamper = "leafCount" THEN 1 ELSE 0),
   poolRebalanceRoot |->
     IF tamper = "emptyPoolRoot" THEN EMPTY_MERKLE_ROOT
     ELSE IF tamper = "poolRoot" THEN ForgedRoot ELSE honest.poolRebalanceRoot,
   relayerRefundRoot |->
     IF tamper \in {"refundRoot", "refundAndSlowRoot"} THEN ForgedRoot
     ELSE honest.relayerRefundRoot,
   slowRelayRoot |->
     IF tamper \in {"slowRoot", "refundAndSlowRoot"} THEN ForgedRoot
     ELSE honest.slowRelayRoot]

\* The proposal a peer makes on chain.
PeerProposal(events, ends, tamper, challengePeriodEndTimestamp) ==
  TamperedProposal(HonestRoots(events, ends), ends, tamper, challengePeriodEndTimestamp)

----------------------------------------------------------------------------
(* The HubPool client's view of the pending proposal, and the multi-caller  *)

\* hubPoolClient.pendingRootBundle holds no bundle or one
NoProposal == <<>>

hasPendingProposal(client) == Len(client.pendingRootBundle) > 0

getPendingRootBundleProposal(client) == client.pendingRootBundle[1]

\* hubPoolClient.getNextBundleStartBlockNumber(chainIdList, latestBlockNumber, chainId)
getNextBundleStartBlockNumber(client, chainId) == client.nextBundleStartBlockNumber[chainId]

\* The transaction handed to multiCallerClient.enqueueTransaction by
\* _submitDisputeWithMrkdwn (the emoji that ends the message is left out).
_submitDisputeWithMrkdwn(chainId, mrkdwn) ==
  [contract |-> "hubPool", chainId |-> chainId, method |-> "disputeRootBundle",
   args |-> <<>>, message |-> "Disputed pending root bundle", mrkdwn |-> mrkdwn]

\* The transaction handed to multiCallerClient.enqueueTransaction by
\* _proposeRootBundle (the emoji that ends the message is left out).
_proposeRootBundle(chainId, bundleBlockRange, poolRebalanceLeaves, poolRebalanceRoot, relayerRefundLeaves, relayerRefundRoot, slowRelayLeaves, slowRelayRoot) ==
  LET bundleEndBlocks == [i \in DOMAIN bundleBlockRange |-> bundleBlockRange[i][2]]
  IN [contract |-> "hubPool", chainId |-> chainId, method |-> "proposeRootBundle",
      args |-> <<bundleEndBlocks, Len(poolRebalanceLeaves), poolRebalanceRoot,
                 relayerRefundRoot, slowRelayRoot>>,
      message |-> "Proposed new root bundle",
      mrkdwn |-> _generateMarkdownForRootBundle(bundleBlockRange, poolRebalanceLeaves,
                                                poolRebalanceRoot, relayerRefundLeaves,
                                                relayerRefundRoot, slowRelayLeaves,
                                                slowRelayRoot)]

\* The error logged by the catch block around enqueueTransaction
EnqueueErrorMessage(tx) ==
  IF tx.method = "proposeRootBundle" THEN "Error creating proposeRootBundleTx"
  ELSE "Error creating disputeRootBundleTx"

----------------------------------------------------------------------------
(* _getWidestPossibleExpectedBlockRange *)

\* A result stored by the number of results that came before it.
StoreInCompletionOrder(results, index, value) ==
  LET slot == Cardinality(DOMAIN results) + 1
  IN [i \in (DOMAIN results) \cup {slot} |-> IF i = slot THEN value ELSE results[i]]

\* Promise.all resolves to the results by the index of the promise, in whatever
\* order the promises settle.
StoreResult(results, index, value) ==
  [i \in (DOMAIN results) \cup {index} |-> IF i = index THEN value ELSE results[i]]

_getWidestPossibleExpectedBlockRange(client, blockNumbers) ==
  [index \in DOMAIN chainIdListForBundleEvaluationBlockNumbers |->
     <<getNextBundleStartBlockNumber(client, chainIdListForBundleEvaluationBlockNumbers[index]),
       blockNumbers[index]>>]

----------------------------------------------------------------------------
(* validateRootBundle *)

\* A window that never closes.
NeverPassed(currentTime, pendingRootBundle) == FALSE

\* "Exit early if challenge period timestamp has passed"
ChallengePeriodPassed(currentTime, pendingRootBundle) ==
  currentTime > pendingRootBundle.challengePeriodEndTimestamp

\* A check that lets every pool rebalance root through.
NeverEmpty(pendingRootBundle) == FALSE

\* "If pool rebalance root is empty, always dispute"
IsEmptyPoolRebalanceRoot(pendingRootBundle) ==
  pendingRootBundle.poolRebalanceRoot = EMPTY_MERKLE_ROOT

\* Buffers that ignore the configuration.
NoBuffers(buffer) ==
  [index \in DOMAIN chainIdListForBundleEvaluationBlockNumbers |-> 0]

\* Buffers that give every chain the largest margin.
EveryBufferMax(buffer) ==
  [index \in DOMAIN chainIdListForBundleEvaluationBlockNumbers |-> MaxBuffer]

\* this.blockRangeEndBlockBuffer[chainId] ?? 0, in the evaluation order
endBlockBuffers(buffer) ==
  [index \in DOMAIN chainIdListForBundleEvaluationBlockNumbers |->
     LET chainId == chainIdListForBundleEvaluationBlockNumbers[index]
     IN IF chainId \in DOMAIN buffer THEN buffer[chainId] ELSE 0]

\* The end blocks compared with the start and head blocks before their number
\* is compared with the number of chains (an index the range list does not have
\* compares as out of range).
LengthCheckedLast(pendingEndBlocks, widestPossibleExpectedBlockRange, buffers) ==
  LET both == (DOMAIN pendingEndBlocks) \cap (DOMAIN widestPossibleExpectedBlockRange)
  IN IF \E index \in both :
          pendingEndBlocks[index] < widestPossibleExpectedBlockRange[index][1]
     THEN "belowStart"
     ELSE IF \E index \in both :
               pendingEndBlocks[index] > widestPossibleExpectedBlockRange[index][2]
          THEN IF \E index \in both :
                    pendingEndBlocks[index] >
                      widestPossibleExpectedBlockRange[index][2] + buffers[index]
               THEN "aboveBuffer"
               ELSE "withinBuffer"
          ELSE IF Len(pendingEndBlocks) # Len(widestPossibleExpectedBlockRange)
               THEN "length"
               ELSE "valid"

\* The checks of the pending end blocks, in the order the code makes them:
\* "length" (dispute), "belowStart" (dispute), "aboveBuffer" (dispute),
\* "withinBuffer" (skip), or "valid".
BlockRangeVerdict(pendingEndBlocks, widestPossibleExpectedBlockRange, buffers) ==
  IF Len(pendingEndBlocks) # Len(widestPossibleExpectedBlockRange)
  THEN "length"
  ELSE IF \E index \in DOMAIN pendingEndBlocks :
            pendingEndBlocks[index] < widestPossibleExpectedBlockRange[index][1]
       THEN "belowStart"
       ELSE IF \E index \in DOMAIN pendingEndBlocks :
                 pendingEndBlocks[index] > widestPossibleExpectedBlockRange[index][2]
            THEN IF \E index \in DOMAIN pendingEndBlocks :
                      pendingEndBlocks[index] >
                        widestPossibleExpectedBlockRange[index][2] + buffers[index]
                 THEN "aboveBuffer"
                 ELSE "withinBuffer"
            ELSE "valid"

BlockRangeVerdictMessage(verdict) ==
  CASE verdict = "length" -> "Unexpected bundle block range length, disputing"
    [] verdict = "belowStart" ->
         "A bundle end block is < expected start block, submitting dispute"
    [] verdict = "aboveBuffer" ->
         "A bundle end block is > latest block + buffer for its chain, submitting dispute"
    [] verdict = "withinBuffer" ->
         "A bundle end block is > latest block but within buffer, skipping"
    [] OTHER -> "Implied bundle ranges are valid"

\* Ranges that keep the widest possible end blocks.
WidestRanges(widestPossibleExpectedBlockRange, pendingEndBlocks) ==
  widestPossibleExpectedBlockRange

\* "the end block specified in the pending root bundle, and the block right
\* after the last valid root bundle proposal's end block"
blockRangesImpliedByBundleEndBlocks(widestPossibleExpectedBlockRange, pendingEndBlocks) ==
  [index \in DOMAIN widestPossibleExpectedBlockRange |->
     <<widestPossibleExpectedBlockRange[index][1], pendingEndBlocks[index]>>]

MatchesMessage == "Pending root bundle matches with expected"

\* A comparison without the branch that accepts.
AlwaysUnexpected(pendingRootBundle, expected) ==
  IF \/ Len(expected.poolRebalanceLeaves) # pendingRootBundle.unclaimedPoolRebalanceLeafCount
     \/ expected.poolRebalanceRoot # pendingRootBundle.poolRebalanceRoot
  THEN "Unexpected pool rebalance root, submitting dispute"
  ELSE IF expected.relayerRefundRoot # pendingRootBundle.relayerRefundRoot
       THEN "Unexpected relayer refund root, submitting dispute"
       ELSE "Unexpected slow relay root, submitting dispute"

\* A comparison that looks at the slow relay root before the relayer refund root.
SlowRootComparedFirst(pendingRootBundle, expected) ==
  IF \/ Len(expected.poolRebalanceLeaves) # pendingRootBundle.unclaimedPoolRebalanceLeafCount
     \/ expected.poolRebalanceRoot # pendingRootBundle.poolRebalanceRoot
  THEN "Unexpected pool rebalance root, submitting dispute"
  ELSE IF expected.slowRelayRoot # pendingRootBundle.slowRelayRoot
       THEN "Unexpected slow relay root, submitting dispute"
       ELSE IF expected.relayerRefundRoot # pendingRootBundle.relayerRefundRoot
            THEN "Unexpected relayer refund root, submitting dispute"
            ELSE MatchesMessage

\* The comparison of the pending bundle with the rebuilt roots: the debug message
\* of the branch taken.
RootsVerdict(pendingRootBundle, expected) ==
  IF \/ Len(expected.poolRebalanceLeaves) # pendingRootBundle.unclaimedPoolRebalanceLeafCount
     \/ expected.poolRebalanceRoot # pendingRootBundle.poolRebalanceRoot
  THEN "Unexpected pool rebalance root, submitting dispute"
  ELSE IF expected.relayerRefundRoot # pendingRootBundle.relayerRefundRoot
       THEN "Unexpected relayer refund root, submitting dispute"
       ELSE IF expected.slowRelayRoot # pendingRootBundle.slowRelayRoot
            THEN "Unexpected slow relay root, submitting dispute"
            ELSE MatchesMessage

\* The result of a part of a controller: [thrown, logs, roots, enqueue, continue];
\* roots holds the rebuilt roots if the part built them, enqueue the transaction
\* it hands to the multi-caller if it does, continue says the controller runs on.
Outcome(thrown, logs, roots, enqueue, continue) ==
  [thrown |-> thrown, logs |-> logs, roots |-> roots, enqueue |-> enqueue,
   continue |-> continue]

\* validateRootBundle up to the call of _getWidestPossibleExpectedBlockRange
validateRootBundleUntilBlockRange(clients) ==
  IF ~clients.hubPoolClient.isUpdated
  THEN Outcome("HubPoolClient not updated", <<>>, <<>>, <<>>, FALSE)
  ELSE IF ~hasPendingProposal(clients.hubPoolClient)
  THEN Outcome(NoError, <<"No pending proposal, nothing to validate">>, <<>>, <<>>, FALSE)
  ELSE LET pendingRootBundle == getPendingRootBundleProposal(clients.hubPoolClient)
       IN IF ChallengePeriodPassed(clients.hubPoolClient.currentTime, pendingRootBundle)
          THEN Outcome(NoError,
                       <<"Found pending proposal", "Challenge period passed, cannot dispute">>,
                       <<>>, <<>>, FALSE)
          ELSE IF IsEmptyPoolRebalanceRoot(pendingRootBundle)
          THEN Outcome(NoError,
                       <<"Found pending proposal",
                         "Empty pool rebalance root, submitting dispute">>,
                       <<>>,
                       <<_submitDisputeWithMrkdwn(
                           hubPoolChainId,
                           "Disputed pending root bundle with empty pool rebalance root")>>,
                       FALSE)
          ELSE Outcome(NoError, <<"Found pending proposal">>, <<>>, <<>>, TRUE)

\* The end of validateRootBundle: the comparison of the pending bundle with the
\* roots rebuilt over the implied ranges (lines 701-753).
validateRootBundleWithRoots(pendingRootBundle, expected, message) ==
  IF expected.error # NoError
  THEN Outcome(expected.error, <<BlockRangeVerdictMessage("valid")>>, <<>>, <<>>, FALSE)
  ELSE IF message = MatchesMessage
  THEN Outcome(NoError, <<BlockRangeVerdictMessage("valid"), message>>, <<expected>>, <<>>,
               FALSE)
  ELSE Outcome(NoError, <<BlockRangeVerdictMessage("valid"), message>>, <<expected>>,
               <<_submitDisputeWithMrkdwn(
                   hubPoolChainId,
                   _generateMarkdownForDispute(pendingRootBundle) \o "\n" \o
                   _generateMarkdownForRootBundle(
                     expected.blockRanges, expected.poolRebalanceLeaves,
                     expected.poolRebalanceRoot, expected.relayerRefundLeaves,
                     expected.relayerRefundRoot, expected.slowRelayLeaves,
                     expected.slowRelayRoot))>>,
               FALSE)

\* The rebuild of the roots over the implied ranges (lines 661-700)
validateRootBundleRebuilding(pendingRootBundle, expected) ==
  validateRootBundleWithRoots(pendingRootBundle, expected,
                              RootsVerdict(pendingRootBundle, expected))

\* The checks of the pending end blocks (lines 571-656), and what follows them
validateRootBundleWithBlockRange(pendingRootBundle, buffers, verdict, widestPossibleExpectedBlockRange, clients, events) ==
  CASE verdict = "length" ->
         Outcome(NoError, <<BlockRangeVerdictMessage(verdict)>>, <<>>,
                 <<_submitDisputeWithMrkdwn(
                     hubPoolChainId,
                     "Disputed pending root bundle with incorrect bundle block range length")>>,
                 FALSE)
    [] verdict \in {"belowStart", "aboveBuffer"} ->
         Outcome(NoError, <<BlockRangeVerdictMessage(verdict)>>, <<>>,
                 <<_submitDisputeWithMrkdwn(
                     hubPoolChainId,
                     _generateMarkdownForDisputeInvalidBundleBlocks(
                       pendingRootBundle, widestPossibleExpectedBlockRange, buffers))>>,
                 FALSE)
    [] verdict = "withinBuffer" ->
         Outcome(NoError, <<BlockRangeVerdictMessage(verdict)>>, <<>>, <<>>, FALSE)
    [] OTHER ->
         validateRootBundleRebuilding(
           pendingRootBundle,
           BuildRoots(blockRangesImpliedByBundleEndBlocks(
                        widestPossibleExpectedBlockRange,
                        pendingRootBundle.bundleEvaluationBlockNumbers),
                      clients, events))

\* validateRootBundle from the result of _getWidestPossibleExpectedBlockRange on
validateRootBundleFromBlockRange(clients, buffer, widestPossibleExpectedBlockRange, events) ==
  validateRootBundleWithBlockRange(
    getPendingRootBundleProposal(clients.hubPoolClient),
    endBlockBuffers(buffer),
    BlockRangeVerdict(
      getPendingRootBundleProposal(clients.hubPoolClient).bundleEvaluationBlockNumbers,
      widestPossibleExpectedBlockRange, endBlockBuffers(buffer)),
    widestPossibleExpectedBlockRange, clients, events)

----------------------------------------------------------------------------
(* proposeRootBundle *)

\* A proposeRootBundle without the check for a pending proposal.
ProposeOverPendingProposal(clients) ==
  IF ~clients.hubPoolClient.isUpdated
  THEN Outcome("HubPoolClient not updated", <<>>, <<>>, <<>>, FALSE)
  ELSE Outcome(NoError, <<>>, <<>>, <<>>, TRUE)

\* proposeRootBundle up to the call of _getWidestPossibleExpectedBlockRange
proposeRootBundleUntilBlockRange(clients) ==
  IF ~clients.hubPoolClient.isUpdated
  THEN Outcome("HubPoolClient not updated", <<>>, <<>>, <<>>, FALSE)
  ELSE IF hasPendingProposal(clients.hubPoolClient)
  THEN Outcome(NoError, <<"Has pending proposal, cannot propose">>, <<>>, <<>>, FALSE)
  ELSE Outcome(NoError, <<>>, <<>>, <<>>, TRUE)

\* A check that takes every tree to have a leaf.
SomeLeafAssumed(poolRebalanceLeaves) == FALSE

\* poolRebalanceRoot.leaves.length === 0
NoPoolRebalanceLeaves(poolRebalanceLeaves) == Len(poolRebalanceLeaves) = 0

\* The end of proposeRootBundle, with the roots built (lines 498-526)
proposeRootBundleWithRoots(built) ==
  IF built.error # NoError
  THEN Outcome(built.error, <<>>, <<>>, <<>>, FALSE)
  ELSE IF NoPoolRebalanceLeaves(built.poolRebalanceLeaves)
  THEN Outcome(NoError, <<"No pool rebalance leaves, cannot propose">>, <<built>>, <<>>,
               FALSE)
  ELSE Outcome(NoError, <<"Enqueing new root bundle proposal txn">>, <<built>>,
               <<_proposeRootBundle(hubPoolChainId, built.blockRanges,
                                    built.poolRebalanceLeaves, built.poolRebalanceRoot,
                                    built.relayerRefundLeaves, built.relayerRefundRoot,
                                    built.slowRelayLeaves, built.slowRelayRoot)>>,
               FALSE)

\* proposeRootBundle from the result of _getWidestPossibleExpectedBlockRange on
proposeRootBundleFromBlockRange(clients, blockRangesForProposal, events) ==
  proposeRootBundleWithRoots(BuildRoots(blockRangesForProposal, clients, events))

----------------------------------------------------------------------------
(* The state machine *)

\* this.clients as the controllers read it
Clients == [hubPoolClient |-> hubPoolClient, configStoreClient |-> configStoreClient]

\* The record of a cycle: the controller run (op), whether it has returned or
\* thrown (done, thrown), the messages it logged, the clients as they were when
\* it started, the block numbers its queries returned, as <<chainId, block>> in
\* the order the queries completed (reads), the roots it built, if any, and the
\* transaction it handed to the multi-caller, if any, with whether
\* enqueueTransaction threw, and the queue as it was when the cycle started.
NewCycle(op, clients, queue) ==
  [op |-> op, done |-> FALSE, thrown |-> NoError, logs |-> <<>>, clients |-> clients,
   queueBefore |-> queue, reads |-> <<>>, widestPossibleExpectedBlockRange |-> <<>>, roots |-> <<>>,
   enqueued |-> <<>>, enqueueThrew |-> FALSE]

\* A controller without the try/catch around enqueueTransaction: the error of
\* the multi-caller reaches the caller and nothing is logged.
SettledWithoutCatch(c, outcome, enqueueThrows) ==
  [c EXCEPT !.done = TRUE,
            !.thrown = IF enqueueThrows /\ Len(outcome.enqueue) > 0
                       THEN "enqueueTransaction failed" ELSE outcome.thrown,
            !.logs = c.logs \o outcome.logs,
            !.roots = outcome.roots,
            !.enqueued = outcome.enqueue,
            !.enqueueThrew = enqueueThrows /\ Len(outcome.enqueue) > 0]

\* The cycle after the controller has returned or thrown with the given outcome.
\* enqueueTransaction is called with outcome.enqueue; when it throws, the catch
\* block logs the error and the controller returns.
Settled(c, outcome, enqueueThrows) ==
  [c EXCEPT !.done = TRUE,
            !.thrown = outcome.thrown,
            !.logs = c.logs \o outcome.logs \o
                     (IF enqueueThrows /\ Len(outcome.enqueue) > 0
                      THEN <<EnqueueErrorMessage(outcome.enqueue[1])>> ELSE <<>>),
            !.roots = outcome.roots,
            !.enqueued = outcome.enqueue,
            !.enqueueThrew = enqueueThrows /\ Len(outcome.enqueue) > 0]

\* multiCallerClient.enqueueTransaction: the queue after the call
enqueueTransaction(queue, outcome, enqueueThrows) ==
  IF enqueueThrows THEN queue ELSE queue \o outcome.enqueue

\* The Dataworker is constructed while the HubPool has no pending proposal, or
\* the proposal a peer made at time 0.
Init ==
  /\ spokePoolEvents \in Range(Snapshots)
  /\ hubPool \in
       {[rootBundleProposal |-> NoProposal]} \cup
       {[rootBundleProposal |-> <<PeerProposal(spokePoolEvents, ends, tamper, Liveness)>>] :
          ends \in EndBlockLists, tamper \in Tampers}
  /\ hubPoolClient = [isUpdated |-> FALSE, currentTime |-> 0,
                      pendingRootBundle |-> NoProposal,
                      nextBundleStartBlockNumber |-> NextBundleStartBlockNumber]
  /\ configStoreClient = [isUpdated |-> FALSE]
  /\ blockRangeEndBlockBuffer \in BufferConfigs
  /\ providerBlockNumber = [chainId \in Chains |-> 0]
  /\ transactions = <<>>
  /\ pc = "idle"
  /\ pendingQueries = {}
  /\ latestBlockNumbers = <<>>
  /\ cycle = NewCycle("none", [hubPoolClient |-> hubPoolClient,
                               configStoreClient |-> configStoreClient], <<>>)
  /\ cycles = 0
  /\ bundle = <<>>

\* hubPoolClient.update(): the client catches up with the HubPool, where time has
\* passed since the last update, if there was one.
HubPoolClientUpdate ==
  /\ pc = "idle"
  /\ cycles < MaxCycles
  /\ \E currentTime \in (hubPoolClient.currentTime +
                           (IF hubPoolClient.isUpdated THEN 1 ELSE 0))..MaxTime :
       hubPoolClient' = [hubPoolClient EXCEPT
                           !.isUpdated = TRUE,
                           !.currentTime = currentTime,
                           !.pendingRootBundle = hubPool.rootBundleProposal]
  /\ UNCHANGED <<bundle, hubPool, configStoreClient, blockRangeEndBlockBuffer, spokePoolEvents,
                 providerBlockNumber, transactions, pc, pendingQueries,
                 latestBlockNumbers, cycle, cycles>>

\* configStoreClient.update()
ConfigStoreClientUpdate ==
  /\ pc = "idle"
  /\ cycles < MaxCycles
  /\ ~configStoreClient.isUpdated
  /\ configStoreClient' = [configStoreClient EXCEPT !.isUpdated = TRUE]
  /\ UNCHANGED <<bundle, hubPool, hubPoolClient, blockRangeEndBlockBuffer, spokePoolEvents,
                 providerBlockNumber, transactions, pc, pendingQueries,
                 latestBlockNumbers, cycle, cycles>>

\* A chain grows by a block, between the cycles or while a cycle waits for the
\* block numbers.
BlockMined(chainId) ==
  /\ (pc = "idle" /\ cycles < MaxCycles) \/ pendingQueries # {}
  /\ providerBlockNumber[chainId] < MaxBlock
  /\ providerBlockNumber' = [providerBlockNumber EXCEPT ![chainId] = @ + 1]
  /\ UNCHANGED <<bundle, hubPool, hubPoolClient, configStoreClient, blockRangeEndBlockBuffer,
                 spokePoolEvents, transactions, pc, pendingQueries, latestBlockNumbers,
                 cycle, cycles>>

\* A controller runs up to _getWidestPossibleExpectedBlockRange, which sends one
\* getBlockNumber() query per chain, or returns or throws before.
Start(op, awaiting, outcome) ==
  /\ pc = "idle"
  /\ cycles < MaxCycles
  /\ cycles' = cycles + 1
  /\ IF outcome.continue
     THEN /\ pc' = awaiting
          /\ pendingQueries' = DOMAIN chainIdListForBundleEvaluationBlockNumbers
          /\ latestBlockNumbers' = <<>>
          /\ cycle' = [NewCycle(op, Clients, transactions) EXCEPT !.logs = outcome.logs]
          /\ UNCHANGED transactions
     ELSE /\ \E enqueueThrows \in BOOLEAN :
               /\ cycle' = Settled(NewCycle(op, Clients, transactions), outcome, enqueueThrows)
               /\ transactions' = enqueueTransaction(transactions, outcome, enqueueThrows)
          /\ UNCHANGED <<pc, pendingQueries, latestBlockNumbers>>
  /\ UNCHANGED <<bundle, hubPool, hubPoolClient, configStoreClient, blockRangeEndBlockBuffer,
                 spokePoolEvents, providerBlockNumber>>

ProposeStart == Start("propose", "proposeAwaitBlocks", proposeRootBundleUntilBlockRange(Clients))

ValidateStart ==
  Start("validate", "validateAwaitBlocks", validateRootBundleUntilBlockRange(Clients))

\* provider.getBlockNumber() of the chain at the given index resolves.
GetBlockNumberResolves(index) ==
  /\ index \in pendingQueries
  /\ latestBlockNumbers' =
       StoreResult(latestBlockNumbers, index,
                   providerBlockNumber[chainIdListForBundleEvaluationBlockNumbers[index]])
  /\ cycle' = [cycle EXCEPT
                 !.reads = Append(@, <<chainIdListForBundleEvaluationBlockNumbers[index],
                                       providerBlockNumber[
                                         chainIdListForBundleEvaluationBlockNumbers[index]]>>)]
  /\ pendingQueries' = pendingQueries \ {index}
  /\ UNCHANGED <<bundle, hubPool, hubPoolClient, configStoreClient, blockRangeEndBlockBuffer,
                 spokePoolEvents, providerBlockNumber, transactions, pc, cycles>>

\* Promise.all has resolved: the controller runs to its end.
Finish(awaiting, widestPossibleExpectedBlockRange, outcome) ==
  /\ pc = awaiting
  /\ pendingQueries = {}
  /\ pc' = "idle"
  /\ \E enqueueThrows \in BOOLEAN :
       /\ cycle' = Settled([cycle EXCEPT !.widestPossibleExpectedBlockRange =
                                           widestPossibleExpectedBlockRange],
                           outcome, enqueueThrows)
       /\ transactions' = enqueueTransaction(transactions, outcome, enqueueThrows)
  /\ UNCHANGED <<bundle, hubPool, hubPoolClient, configStoreClient, blockRangeEndBlockBuffer,
                 spokePoolEvents, providerBlockNumber, pendingQueries,
                 latestBlockNumbers, cycles>>

ProposeFinish ==
  Finish("proposeAwaitBlocks",
         _getWidestPossibleExpectedBlockRange(hubPoolClient, latestBlockNumbers),
         proposeRootBundleFromBlockRange(
           Clients, _getWidestPossibleExpectedBlockRange(hubPoolClient, latestBlockNumbers),
           spokePoolEvents))

ValidateFinish ==
  Finish("validateAwaitBlocks",
         _getWidestPossibleExpectedBlockRange(hubPoolClient, latestBlockNumbers),
         validateRootBundleFromBlockRange(
           Clients, blockRangeEndBlockBuffer,
           _getWidestPossibleExpectedBlockRange(hubPoolClient, latestBlockNumbers),
           spokePoolEvents))

Next ==
  \/ HubPoolClientUpdate
  \/ ConfigStoreClientUpdate
  \/ \E chainId \in Chains : BlockMined(chainId)
  \/ ProposeStart
  \/ ValidateStart
  \/ \E index \in DOMAIN chainIdListForBundleEvaluationBlockNumbers :
       GetBlockNumberResolves(index)
  \/ ProposeFinish
  \/ ValidateFinish

Spec == Init /\ [][Next]_vars

----------------------------------------------------------------------------
(* The loader and the three builders on their own.  A bundle is built from   *)
(* the event logs as they stand at some time: each deposit has received a    *)
(* prefix of the fills of its history, and chain 1 may have recorded a fill  *)
(* that matches no deposit.                                                  *)

Relayer3 == 53

\* Deposit 1 of chain 1 to chain 10, made in block 2 and filled at once.
DepositC == Deposit(1, 1, 10, 100, 40, 2)

\* The fills of deposit 0 of chain 1: a partial fill in the previous bundle (a
\* slow fill of 10 was then sent for it), a second partial fill, the slow relay.
HistoryA ==
  <<FillWithBlock(DepositA, 10, 10, 10, Relayer1, FALSE, 0),
    FillWithBlock(DepositA, 5, 15, 1, Relayer3, FALSE, 1),
    FillWithBlock(DepositA, 5, 20, 10, Relayer1, TRUE, 2)>>

\* The fills of deposit 0 of chain 10: two partial fills, then the rest.
HistoryB ==
  <<FillWithBlock(DepositB, 10, 10, 1, Relayer1, FALSE, 1),
    FillWithBlock(DepositB, 5, 15, 1, Relayer2, FALSE, 2),
    FillWithBlock(DepositB, 15, 30, 10, Relayer2, FALSE, 2)>>

HistoryC == <<FillWithBlock(DepositC, 40, 40, 10, Relayer2, FALSE, 2)>>

\* Deposit 2 of chain 10 to chain 1, of the other L1 token, half filled by one fill.
DepositD == Deposit(2, 10, 1, 200, 20, 2)

HistoryD == <<FillWithBlock(DepositD, 10, 10, 1, Relayer1, FALSE, 2)>>

\* A fill of chain 1 for a deposit chain 10 never had.
UnmatchedFills == <<FillWithBlock(NoDeposit, 30, 30, 1, Relayer2, FALSE, 1)>>

Histories == <<HistoryA, HistoryD, HistoryB, HistoryC, UnmatchedFills>>

\* The event logs in which history h has got as far as its first progress[h] fills.
EventsAt(progress) ==
  [deposits |-> <<DepositA, DepositB, DepositC, DepositD>>,
   fills |-> SubSeq(HistoryA, 1, progress[1]) \o SubSeq(HistoryD, 1, progress[2]) \o
             SubSeq(HistoryB, 1, progress[3]) \o SubSeq(HistoryC, 1, progress[4]) \o
             SubSeq(UnmatchedFills, 1, progress[5])]

EventLogs ==
  {EventsAt(progress) :
     progress \in {q \in [DOMAIN Histories -> 0..3] :
                     \A h \in DOMAIN Histories : q[h] <= Len(Histories[h])}}

\* The block ranges a bundle may cover: for each chain, from a block not before
\* its next bundle start block to a block not before that one.
BlockRanges ==
  [DOMAIN chainIdListForBundleEvaluationBlockNumbers ->
     {<<s, e>> : s \in 1..MaxBlock, e \in 1..MaxBlock} \ {<<s, e>> \in (1..MaxBlock) \X (1..MaxBlock) : e < s}]

\* The record of the builds over one list of block ranges: what _loadData and
\* each builder returned, <<>> while the call has not been made; the refund
\* leaves as buildRelayerRefundRoot held them before its sort, with their
\* groupIndex; and what the builders returned when they were run once more on
\* other event logs.
NewBundle(blockRangesForChains) ==
  [blockRangesForChains |-> blockRangesForChains, data |-> <<>>,
   poolRebalanceRoot |-> <<>>, relayerRefundLeaves |-> <<>>, relayerRefundRoot |-> <<>>,
   slowRelayRoot |-> <<>>, again |-> <<>>]

BuildInit ==
  /\ spokePoolEvents \in EventLogs
  /\ bundle \in {NewBundle(blockRangesForChains) : blockRangesForChains \in BlockRanges}
  /\ hubPool = [rootBundleProposal |-> NoProposal]
  /\ hubPoolClient = [isUpdated |-> TRUE, currentTime |-> 0,
                      pendingRootBundle |-> NoProposal,
                      nextBundleStartBlockNumber |-> NextBundleStartBlockNumber]
  /\ configStoreClient = [isUpdated |-> TRUE]
  /\ blockRangeEndBlockBuffer = [chainId \in {} |-> 0]
  /\ providerBlockNumber = [chainId \in Chains |-> MaxBlock]
  /\ transactions = <<>>
  /\ pc = "idle"
  /\ pendingQueries = {}
  /\ latestBlockNumbers = <<>>
  /\ cycle = NewCycle("none", UpdatedClients, <<>>)
  /\ cycles = 0

\* The SpokePool clients the builders are given
SpokePoolClients ==
  _constructSpokePoolClientsForBlockAndUpdate(
    getBlockRangeForChain(bundle.blockRangesForChains, 1,
                          chainIdListForBundleEvaluationBlockNumbers)[2])

\* A call of a method of the Dataworker that stores what it returned
Call(result) ==
  /\ bundle' = result
  /\ UNCHANGED <<hubPool, hubPoolClient, configStoreClient, blockRangeEndBlockBuffer,
                 spokePoolEvents, providerBlockNumber, transactions, pc, pendingQueries,
                 latestBlockNumbers, cycle, cycles>>

LoadData ==
  /\ bundle.data = <<>>
  /\ Call([bundle EXCEPT !.data =
             <<_loadData(bundle.blockRangesForChains, SpokePoolClients, Clients,
                         spokePoolEvents)>>])

BuildPoolRebalanceRoot ==
  /\ bundle.poolRebalanceRoot = <<>>
  /\ Call([bundle EXCEPT !.poolRebalanceRoot =
             <<buildPoolRebalanceRoot(bundle.blockRangesForChains, SpokePoolClients, Clients,
                                      spokePoolEvents)>>])

\* relayerRefundLeaves is the list buildRelayerRefundRoot sorts and indexes
BuildRelayerRefundRoot ==
  /\ bundle.relayerRefundRoot = <<>>
  /\ Call([bundle EXCEPT
             !.relayerRefundRoot =
               <<buildRelayerRefundRoot(bundle.blockRangesForChains, SpokePoolClients,
                                        Clients, spokePoolEvents)>>,
             !.relayerRefundLeaves =
               RelayerRefundLeavesWithGroup(
                 FillsToRefundInKeyOrder(
                   _loadData(bundle.blockRangesForChains, SpokePoolClients, Clients,
                             spokePoolEvents).fillsToRefund),
                 buildPoolRebalanceRoot(bundle.blockRangesForChains, SpokePoolClients,
                                        Clients, spokePoolEvents),
                 getBlockRangeForChain(bundle.blockRangesForChains, 1,
                                       chainIdListForBundleEvaluationBlockNumbers)[2])])

BuildSlowRelayRoot ==
  /\ bundle.slowRelayRoot = <<>>
  /\ Call([bundle EXCEPT !.slowRelayRoot =
             <<buildSlowRelayRoot(bundle.blockRangesForChains, SpokePoolClients, Clients,
                                  spokePoolEvents)>>])

\* Fills of deposits that were never made: deposit 9 of chain 10, and a deposit 1
\* of chain 10 (chain 1 has a deposit 1, chain 10 has not) and a deposit 9 of
\* chain 1.
OtherUnmatchedFills ==
  {FillWithBlock(NoDeposit, 30, 30, 1, Relayer1, FALSE, 2),
   FillWithBlock(Deposit(1, 10, 1, 100, 20, 2), 20, 20, 1, Relayer3, FALSE, 1),
   FillWithBlock(Deposit(9, 1, 10, 100, 20, 1), 20, 20, 10, Relayer3, FALSE, 2)}

\* The fill repeats the (originChainId, depositId) of a deposit of the logs
Matched(events, fill) ==
  \E i \in DOMAIN events.deposits :
    /\ events.deposits[i].originChainId = fill.originChainId
    /\ events.deposits[i].depositId = fill.depositId

\* Event logs that differ from the given ones only by fills that match no
\* deposit: the given logs without such fills, or with one more of them, recorded
\* first or last.
WithOtherUnmatchedFills(events) ==
  {[events EXCEPT !.fills = SelectIdx(@, {i \in DOMAIN @ : Matched(events, @[i])})]}
    \cup {[events EXCEPT !.fills = <<fill>> \o @] : fill \in OtherUnmatchedFills}
    \cup {[events EXCEPT !.fills = Append(@, fill)] : fill \in OtherUnmatchedFills}

AllBuilt ==
  /\ bundle.data # <<>>
  /\ bundle.poolRebalanceRoot # <<>>
  /\ bundle.relayerRefundRoot # <<>>
  /\ bundle.slowRelayRoot # <<>>

\* The loader and the three builders are run once more over the same block
\* ranges, with clients that hold the given event logs.
BuildAgain(events) ==
  /\ AllBuilt
  /\ bundle.again = <<>>
  /\ Call([bundle EXCEPT !.again =
             <<[events |-> events,
                data |-> _loadData(bundle.blockRangesForChains, SpokePoolClients, Clients,
                                   events),
                roots |-> BuildRootsWith(bundle.blockRangesForChains, SpokePoolClients,
                                         Clients, events)]>>])

BuildWithOtherUnmatchedFills ==
  \E events \in WithOtherUnmatchedFills(spokePoolEvents) : BuildAgain(events)

\* The list with the entries at i and i + 1 exchanged
Exchanged(list, i) ==
  [k \in DOMAIN list |-> IF k = i THEN list[i + 1] ELSE IF k = i + 1 THEN list[i] ELSE list[k]]

\* The same events as another client may enumerate them: two neighbouring fills or
\* deposits exchanged, or both lists last to first, or nothing changed.
Reorderings(events) ==
  {events,
   [deposits |-> [i \in DOMAIN events.deposits |->
                    events.deposits[Len(events.deposits) + 1 - i]],
    fills |-> [i \in DOMAIN events.fills |-> events.fills[Len(events.fills) + 1 - i]]]}
    \cup {[events EXCEPT !.fills = Exchanged(@, i)] : i \in 1..(Len(events.fills) - 1)}
    \cup {[events EXCEPT !.deposits = Exchanged(@, i)] : i \in 1..(Len(events.deposits) - 1)}

BuildInAnotherOrder ==
  \E events \in Reorderings(spokePoolEvents) : BuildAgain(events)

BuildNext ==
  \/ LoadData
  \/ BuildPoolRebalanceRoot
  \/ BuildRelayerRefundRoot
  \/ BuildSlowRelayRoot
  \/ BuildWithOtherUnmatchedFills
  \/ BuildInAnotherOrder

BuildSpec == BuildInit /\ [][BuildNext]_vars

----------------------------------------------------------------------------
(* The sorts that end buildSlowRelayRoot and buildRelayerRefundRoot, applied *)
(* to leaf lists of up to MaxLeaves leaves, among them lists in which two    *)
(* leaves agree on every key their comparator reads.                         *)

MaxLeaves == 3

\* The lists of at most MaxLeaves entries of the set
ListsOf(entries) == UNION {[1..n -> entries] : n \in 0..MaxLeaves}

\* slowRelayLeaves as lines 201-213 may hold it
SlowRelayLeafInputs ==
  {RelayDataOf(Deposit(depositId, originChainId, 11 - originChainId, 100, amount, 1)) :
     depositId \in 0..1, originChainId \in Chains, amount \in {20, 30}}

\* relayerRefundLeaves as lines 271-281 and 309-319 may hold it
RefundLeafInputs ==
  {[groupIndex |-> groupIndex, leafId |-> 0, chainId |-> chainId, amountToReturn |-> 0,
    l2TokenAddress |-> getDestinationTokenForL1TokenDestinationChainId(l1Token, chainId),
    refundAddresses |-> <<Relayer1>>, refundAmounts |-> <<9>>] :
     groupIndex \in {0, 2}, chainId \in Chains, l1Token \in L1Tokens}

\* The record of the two sorts: the lists they are given and what the builders
\* then return, <<>> while the sort has not run
NewSorts(slowRelayLeaves, relayerRefundLeaves) ==
  [slowRelayLeaves |-> slowRelayLeaves, relayerRefundLeaves |-> relayerRefundLeaves,
   slowRelayRoot |-> <<>>, relayerRefundRoot |-> <<>>]

SortInit ==
  /\ spokePoolEvents = [deposits |-> <<>>, fills |-> <<>>]
  /\ bundle \in {NewSorts(leaves, <<>>) : leaves \in ListsOf(SlowRelayLeafInputs)}
                  \cup {NewSorts(<<>>, leaves) : leaves \in ListsOf(RefundLeafInputs)}
  /\ hubPool = [rootBundleProposal |-> NoProposal]
  /\ hubPoolClient = [isUpdated |-> TRUE, currentTime |-> 0,
                      pendingRootBundle |-> NoProposal,
                      nextBundleStartBlockNumber |-> NextBundleStartBlockNumber]
  /\ configStoreClient = [isUpdated |-> TRUE]
  /\ blockRangeEndBlockBuffer = [chainId \in {} |-> 0]
  /\ providerBlockNumber = [chainId \in Chains |-> MaxBlock]
  /\ transactions = <<>>
  /\ pc = "idle"
  /\ pendingQueries = {}
  /\ latestBlockNumbers = <<>>
  /\ cycle = NewCycle("none", UpdatedClients, <<>>)
  /\ cycles = 0

\* Lines 215-226 of buildSlowRelayRoot
SortSlowRelayLeaves ==
  /\ bundle.slowRelayRoot = <<>>
  /\ Call([bundle EXCEPT !.slowRelayRoot =
             <<Tree(SortedSlowRelayLeaves(bundle.slowRelayLeaves))>>])

\* Lines 325-343 of buildRelayerRefundRoot
SortRelayerRefundLeaves ==
  /\ bundle.relayerRefundRoot = <<>>
  /\ Call([bundle EXCEPT !.relayerRefundRoot =
             <<SortedRefundTree(bundle.relayerRefundLeaves)>>])

SortNext ==
  \/ SortSlowRelayLeaves
  \/ SortRelayerRefundLeaves

SortSpec == SortInit /\ [][SortNext]_vars

----------------------------------------------------------------------------
(* _loadData and the three builders called on clients and block ranges that   *)
(* may break a precondition: a client that is not updated, a chain without a  *)
(* SpokePool client, a block range list of another length.                    *)

\* The SpokePool clients a caller may pass: a client, updated or not, for some
\* of the chains
SpokePoolClientInputs ==
  UNION {[chains -> [isUpdated : BOOLEAN]] : chains \in SUBSET Chains}

\* The block range lists a caller may pass: of the length of the chain list, one
\* shorter, one longer
BlockRangeInputs ==
  UNION {[1..n -> {<<1, 1>>, <<1, MaxBlock>>}] :
           n \in (Len(chainIdListForBundleEvaluationBlockNumbers) - 1)
                   ..(Len(chainIdListForBundleEvaluationBlockNumbers) + 1)}

\* The record of the calls: the arguments, and what each call returned or threw,
\* <<>> while it has not been made
NewCalls(blockRangesForChains, spokePoolClients) ==
  [blockRangesForChains |-> blockRangesForChains, spokePoolClients |-> spokePoolClients,
   data |-> <<>>, poolRebalanceRoot |-> <<>>, relayerRefundRoot |-> <<>>,
   slowRelayRoot |-> <<>>]

PreconditionInit ==
  /\ spokePoolEvents = EventsAt([h \in DOMAIN Histories |-> Len(Histories[h])])
  /\ bundle \in {NewCalls(blockRangesForChains, spokePoolClients) :
                   blockRangesForChains \in BlockRangeInputs,
                   spokePoolClients \in SpokePoolClientInputs}
  /\ hubPool = [rootBundleProposal |-> NoProposal]
  /\ hubPoolClient \in [isUpdated : BOOLEAN, currentTime : {0},
                        pendingRootBundle : {NoProposal},
                        nextBundleStartBlockNumber : {NextBundleStartBlockNumber}]
  /\ configStoreClient \in [isUpdated : BOOLEAN]
  /\ blockRangeEndBlockBuffer = [chainId \in {} |-> 0]
  /\ providerBlockNumber = [chainId \in Chains |-> MaxBlock]
  /\ transactions = <<>>
  /\ pc = "idle"
  /\ pendingQueries = {}
  /\ latestBlockNumbers = <<>>
  /\ cycle = NewCycle("none", UpdatedClients, <<>>)
  /\ cycles = 0

CallLoadData ==
  /\ bundle.data = <<>>
  /\ Call([bundle EXCEPT !.data =
             <<_loadData(bundle.blockRangesForChains, bundle.spokePoolClients, Clients,
                         spokePoolEvents)>>])

CallBuildPoolRebalanceRoot ==
  /\ bundle.poolRebalanceRoot = <<>>
  /\ Call([bundle EXCEPT !.poolRebalanceRoot =
             <<buildPoolRebalanceRoot(bundle.blockRangesForChains, bundle.spokePoolClients,
                                      Clients, spokePoolEvents)>>])

CallBuildRelayerRefundRoot ==
  /\ bundle.relayerRefundRoot = <<>>
  /\ Call([bundle EXCEPT !.relayerRefundRoot =
             <<buildRelayerRefundRoot(bundle.blockRangesForChains, bundle.spokePoolClients,
                                      Clients, spokePoolEvents)>>])

CallBuildSlowRelayRoot ==
  /\ bundle.slowRelayRoot = <<>>
  /\ Call([bundle EXCEPT !.slowRelayRoot =
             <<buildSlowRelayRoot(bundle.blockRangesForChains, bundle.spokePoolClients,
                                  Clients, spokePoolEvents)>>])

PreconditionNext ==
  \/ CallLoadData
  \/ CallBuildPoolRebalanceRoot
  \/ CallBuildRelayerRefundRoot
  \/ CallBuildSlowRelayRoot

PreconditionSpec == PreconditionInit /\ [][PreconditionNext]_vars

----------------------------------------------------------------------------
(* A sequence of cycles of one Dataworker.  The cycles are those of Spec;   *)
(* the counter of cycles starts MaxSequence short of its bound, and the     *)
(* HubPool holds no proposal or one of a few, so that the queue of the      *)
(* multi-caller is followed over more than one cycle.                       *)

MaxSequence == 2

\* The end blocks of the proposals pending in a sequence of cycles: below the
\* start block of chain 1, the start blocks, and the highest blocks.
SequenceEndBlockLists == {<<0, 1>>, <<1, 1>>, <<MaxBlock, MaxBlock>>}

SequenceTampers == {"none", "emptyPoolRoot", "refundRoot"}

CyclesInit ==
  /\ spokePoolEvents = SnapshotFull
  /\ hubPool \in
       {[rootBundleProposal |-> NoProposal]} \cup
       {[rootBundleProposal |-> <<PeerProposal(spokePoolEvents, ends, tamper, Liveness)>>] :
          ends \in SequenceEndBlockLists, tamper \in SequenceTampers}
  /\ hubPoolClient = [isUpdated |-> FALSE, currentTime |-> 0,
                      pendingRootBundle |-> NoProposal,
                      nextBundleStartBlockNumber |-> NextBundleStartBlockNumber]
  /\ configStoreClient = [isUpdated |-> FALSE]
  /\ blockRangeEndBlockBuffer = [chainId \in {} |-> 0]
  /\ providerBlockNumber = [chainId \in Chains |-> 0]
  /\ transactions = <<>>
  /\ pc = "idle"
  /\ pendingQueries = {}
  /\ latestBlockNumbers = <<>>
  /\ cycle = NewCycle("none", [hubPoolClient |-> hubPoolClient,
                               configStoreClient |-> configStoreClient], <<>>)
  /\ cycles = MaxCycles - MaxSequence
  /\ bundle = <<>>

CyclesSpec == CyclesInit /\ [][Next]_vars

----------------------------------------------------------------------------
(* The chunking loop of buildRelayerRefundRoot, one iteration at a time     *)
(* (lines 268-281), for a group of sorted recipients and the values that    *)
(* maxRefundCountOverride and the ConfigStore may hold.                     *)

MaxRecipients == 4

\* The loop is followed until it has pushed this many sub-leaves.
MaxSubLeaves == 6

\* maxRefundCountOverride as constructed (0 stands for undefined as well: both
\* are falsy), and the value the ConfigStore holds for the end block of mainnet.
OverrideInputs == {0 - 1, 0, 1, 2}

ConfigStoreInputs == {0, 1, 2}

\* sortedRefundAddresses of a group with n recipients, each with its refund
SortedRefundInputs(n) == [j \in 1..n |-> [relayer |-> 50 + j, amount |-> 10 - j]]

\* this.maxRefundCountOverride ? this.maxRefundCountOverride : configStore value
selectMaxRefundCount(override, configStoreValue) ==
  IF override # 0 THEN override ELSE configStoreValue

\* Array.prototype.slice(start, end): a negative index counts from the end
slice(array, start, end) ==
  LET from == IF start < 0 THEN (IF Len(array) + start > 0 THEN Len(array) + start ELSE 0)
              ELSE Min(start, Len(array))
      to == IF end < 0 THEN (IF Len(array) + end > 0 THEN Len(array) + end ELSE 0)
            ELSE Min(end, Len(array))
  IN SubSeq(array, from + 1, to)

\* The group whose refunds are chunked
ChunkedGroup == [repaymentChainId |-> 10, l2TokenAddress |-> 110]

NewLoop(sortedRefunds, amountToReturn, override, configStoreValue) ==
  [sortedRefunds |-> sortedRefunds, amountToReturn |-> amountToReturn,
   override |-> override, configStoreValue |-> configStoreValue,
   maxRefundCount |-> 0, i |-> 0, relayerRefundLeaves |-> <<>>, pc |-> "select"]

ChunkInit ==
  /\ bundle \in {NewLoop(SortedRefundInputs(n), amountToReturn, override, configStoreValue) :
                   n \in 0..MaxRecipients, amountToReturn \in {0, 30},
                   override \in OverrideInputs, configStoreValue \in ConfigStoreInputs}
  /\ spokePoolEvents = SnapshotQuiet
  /\ hubPool = [rootBundleProposal |-> NoProposal]
  /\ hubPoolClient = [isUpdated |-> TRUE, currentTime |-> 0,
                      pendingRootBundle |-> NoProposal,
                      nextBundleStartBlockNumber |-> NextBundleStartBlockNumber]
  /\ configStoreClient = [isUpdated |-> TRUE]
  /\ blockRangeEndBlockBuffer = [chainId \in {} |-> 0]
  /\ providerBlockNumber = [chainId \in Chains |-> 0]
  /\ transactions = <<>>
  /\ pc = "idle"
  /\ pendingQueries = {}
  /\ latestBlockNumbers = <<>>
  /\ cycle = NewCycle("none", [hubPoolClient |-> hubPoolClient,
                               configStoreClient |-> configStoreClient], <<>>)
  /\ cycles = 0

\* lines 268-271: maxRefundCount is chosen and the loop starts at i = 0
ChunkSelect ==
  /\ bundle.pc = "select"
  /\ bundle' = [bundle EXCEPT
                  !.maxRefundCount = selectMaxRefundCount(bundle.override,
                                                          bundle.configStoreValue),
                  !.i = 0,
                  !.pc = "loop"]
  /\ UNCHANGED <<hubPool, hubPoolClient, configStoreClient, blockRangeEndBlockBuffer,
                 spokePoolEvents, providerBlockNumber, transactions, pc, pendingQueries,
                 latestBlockNumbers, cycle, cycles>>

\* lines 271-281: i < sortedRefundAddresses.length, a sub-leaf is pushed and
\* i += maxRefundCount
ChunkPush ==
  /\ bundle.pc = "loop"
  /\ bundle.i < Len(bundle.sortedRefunds)
  /\ Len(bundle.relayerRefundLeaves) < MaxSubLeaves
  /\ bundle' = [bundle EXCEPT
                  !.relayerRefundLeaves =
                    Append(@,
                      [groupIndex |-> bundle.i,
                       amountToReturn |-> IF bundle.i = 0 THEN bundle.amountToReturn ELSE 0,
                       chainId |-> ChunkedGroup.repaymentChainId,
                       refundAmounts |->
                         [j \in DOMAIN slice(bundle.sortedRefunds, bundle.i,
                                             bundle.i + bundle.maxRefundCount) |->
                            slice(bundle.sortedRefunds, bundle.i,
                                  bundle.i + bundle.maxRefundCount)[j].amount],
                       leafId |-> 0,
                       l2TokenAddress |-> ChunkedGroup.l2TokenAddress,
                       refundAddresses |->
                         [j \in DOMAIN slice(bundle.sortedRefunds, bundle.i,
                                             bundle.i + bundle.maxRefundCount) |->
                            slice(bundle.sortedRefunds, bundle.i,
                                  bundle.i + bundle.maxRefundCount)[j].relayer]]),
                  !.i = bundle.i + bundle.maxRefundCount]
  /\ UNCHANGED <<hubPool, hubPoolClient, configStoreClient, blockRangeEndBlockBuffer,
                 spokePoolEvents, providerBlockNumber, transactions, pc, pendingQueries,
                 latestBlockNumbers, cycle, cycles>>

\* line 271: i < sortedRefundAddresses.length is false, the loop has ended
ChunkExit ==
  /\ bundle.pc = "loop"
  /\ ~(bundle.i < Len(bundle.sortedRefunds))
  /\ bundle' = [bundle EXCEPT !.pc = "done"]
  /\ UNCHANGED <<hubPool, hubPoolClient, configStoreClient, blockRangeEndBlockBuffer,
                 spokePoolEvents, providerBlockNumber, transactions, pc, pendingQueries,
                 latestBlockNumbers, cycle, cycles>>

ChunkNext == ChunkSelect \/ ChunkPush \/ ChunkExit

ChunkSpec == ChunkInit /\ [][ChunkNext]_vars

----------------------------------------------------------------------------
(* What a cycle was given and what it did, read off its record *)

NumChains == Len(chainIdListForBundleEvaluationBlockNumbers)

ChainAt(i) == chainIdListForBundleEvaluationBlockNumbers[i]

\* The pending proposal the cycle saw, and its end blocks
PendingOf(c) == c.clients.hubPoolClient.pendingRootBundle[1]

PendingEnds(c) == PendingOf(c).bundleEvaluationBlockNumbers

\* expectedStart[i]: the next bundle start block of the i-th chain
ExpectedStart(c, i) == c.clients.hubPoolClient.nextBundleStartBlockNumber[ChainAt(i)]

\* expectedEnd[i]: the block number the cycle read for the i-th chain
ExpectedEnd(c, i) == (CHOOSE read \in Range(c.reads) : read[1] = ChainAt(i))[2]

\* buffer[i]: the configured margin of the i-th chain, 0 when not configured
Buffer(i) ==
  IF ChainAt(i) \in DOMAIN blockRangeEndBlockBuffer
  THEN blockRangeEndBlockBuffer[ChainAt(i)] ELSE 0

\* The ranges [expectedStart[i], pendingEnd[i]]
ImpliedRanges(c) == [i \in 1..NumChains |-> <<ExpectedStart(c, i), PendingEnds(c)[i]>>]

\* The ranges [nextBundleStartBlock_i, latestBlock_i]
WidestRangesRead(c) == [i \in 1..NumChains |-> <<ExpectedStart(c, i), ExpectedEnd(c, i)>>]

\* validateRootBundle ran to its end with the HubPool client updated
Validated(c) == c.op = "validate" /\ c.done /\ c.clients.hubPoolClient.isUpdated

\* ... on a pending proposal inside its challenge window
InWindow(c) ==
  /\ Validated(c)
  /\ Len(c.clients.hubPoolClient.pendingRootBundle) = 1
  /\ c.clients.hubPoolClient.currentTime <= PendingOf(c).challengePeriodEndTimestamp

\* ... whose pool rebalance root is not the empty sentinel
Candidate(c) == InWindow(c) /\ PendingOf(c).poolRebalanceRoot # EMPTY_MERKLE_ROOT

\* ... whose end-block list has the expected length
WellFormed(c) == Candidate(c) /\ Len(PendingEnds(c)) = NumChains

\* ... whose every end block lies in [expectedStart[i], expectedEnd[i]]
EndsInRange(c) ==
  /\ WellFormed(c)
  /\ \A i \in 1..NumChains :
       ExpectedStart(c, i) <= PendingEnds(c)[i] /\ PendingEnds(c)[i] <= ExpectedEnd(c, i)

\* ... and which rebuilt the three roots
Rebuilt(c) == Validated(c) /\ Len(c.roots) = 1

\* The cycle called enqueueTransaction never, and the queue is as it was.
EnqueuedNothing(c) == c.enqueued = <<>> /\ transactions = c.queueBefore

\* The cycle called enqueueTransaction once, and the queue holds the transaction
\* after the ones it held, unless the call threw (the error is then logged).
EnqueuedOne(c) ==
  /\ Len(c.enqueued) = 1
  /\ transactions = IF c.enqueueThrew THEN c.queueBefore ELSE c.queueBefore \o c.enqueued
  /\ c.enqueueThrew => EnqueueErrorMessage(c.enqueued[1]) \in Range(c.logs)

Disputed(c) ==
  /\ EnqueuedOne(c)
  /\ c.enqueued[1].method = "disputeRootBundle"
  /\ c.enqueued[1].args = <<>>
  /\ c.enqueued[1].chainId = hubPoolChainId

\* proposeRootBundle ran to its end
Proposed(c) == c.op = "propose" /\ c.done

\* ... with the HubPool client updated and no proposal pending
ProposedFresh(c) ==
  /\ Proposed(c)
  /\ c.clients.hubPoolClient.isUpdated
  /\ c.clients.hubPoolClient.pendingRootBundle = NoProposal

----------------------------------------------------------------------------
(* C1 *)

RootsDiffer(pendingRootBundle, rebuilt) ==
  \/ rebuilt.poolRebalanceRoot # pendingRootBundle.poolRebalanceRoot
  \/ rebuilt.relayerRefundRoot # pendingRootBundle.relayerRefundRoot
  \/ rebuilt.slowRelayRoot # pendingRootBundle.slowRelayRoot

RebuiltAndDisputed(c, rebuilt) ==
  IF rebuilt.error # NoError
  THEN c.thrown = rebuilt.error /\ ~c.clients.configStoreClient.isUpdated /\ EnqueuedNothing(c)
  ELSE /\ c.thrown = NoError
       /\ c.roots = <<rebuilt>>
       /\ RootsDiffer(PendingOf(c), rebuilt) => Disputed(c)

\* C1: validateRootBundle, on a pending proposal inside its challenge window,
\* with a pool rebalance root that is not the empty sentinel, an end-block list of
\* the expected length and every end block in [expectedStart[i], expectedEnd[i]],
\* rebuilds the three roots over the ranges [expectedStart[i], pendingEnd[i]],
\* and hands a disputeRootBundle transaction to the multi-caller if the rebuilt
\* pool rebalance root, relayer refund root or slow relay root differs from the
\* pending one. (A cycle whose ConfigStore client is not updated aborts in the
\* first build with the builders' precondition error, and enqueues nothing.)
C1_RebuildOverImpliedRangesAndDispute ==
  EndsInRange(cycle) =>
    RebuiltAndDisputed(cycle, BuildRoots(ImpliedRanges(cycle), cycle.clients, spokePoolEvents))

\* A dispute of a proposal whose end blocks are below the heads read, for a
\* root other than the one rebuilt over the implied ranges.
C1_Witness ==
  /\ EndsInRange(cycle)
  /\ Rebuilt(cycle)
  /\ \E i \in 1..NumChains : PendingEnds(cycle)[i] < ExpectedEnd(cycle, i)
  /\ Len(cycle.roots[1].poolRebalanceLeaves) > 0
  /\ PendingOf(cycle).slowRelayRoot # cycle.roots[1].slowRelayRoot
  /\ PendingOf(cycle).poolRebalanceRoot = cycle.roots[1].poolRebalanceRoot
  /\ Disputed(cycle)

----------------------------------------------------------------------------
(* C2 *)

RootsMatch(c) ==
  /\ Rebuilt(c)
  /\ c.roots[1].poolRebalanceRoot = PendingOf(c).poolRebalanceRoot
  /\ c.roots[1].relayerRefundRoot = PendingOf(c).relayerRefundRoot
  /\ c.roots[1].slowRelayRoot = PendingOf(c).slowRelayRoot

\* C2 as stated: whenever the three pending roots equal the rebuilt ones,
\* validateRootBundle returns without enqueuing a transaction.
C2_AcceptOnEqualRoots == RootsMatch(cycle) => EnqueuedNothing(cycle)

\* C2: whenever the three pending roots equal the rebuilt ones and the pending
\* unclaimedPoolRebalanceLeafCount equals the number of rebuilt pool rebalance
\* leaves, validateRootBundle returns without enqueuing a transaction; when the
\* roots are equal and the leaf count is not, it disputes.
C2_AcceptOnEqualRootsAndLeafCount ==
  RootsMatch(cycle) =>
    IF PendingOf(cycle).unclaimedPoolRebalanceLeafCount = Len(cycle.roots[1].poolRebalanceLeaves)
    THEN /\ EnqueuedNothing(cycle)
         /\ cycle.thrown = NoError
         /\ MatchesMessage \in Range(cycle.logs)
    ELSE Disputed(cycle)

\* An honest proposal with leaves, accepted.
C2_Witness ==
  /\ RootsMatch(cycle)
  /\ Len(cycle.roots[1].poolRebalanceLeaves) > 0
  /\ PendingOf(cycle).unclaimedPoolRebalanceLeafCount = Len(cycle.roots[1].poolRebalanceLeaves)
  /\ EnqueuedNothing(cycle)

----------------------------------------------------------------------------
(* C3 *)

BelowStart(c) == \E i \in 1..NumChains : PendingEnds(c)[i] < ExpectedStart(c, i)

AboveBuffer(c) == \E i \in 1..NumChains : PendingEnds(c)[i] > ExpectedEnd(c, i) + Buffer(i)

WithinBuffer(c, i) ==
  ExpectedEnd(c, i) < PendingEnds(c)[i] /\ PendingEnds(c)[i] <= ExpectedEnd(c, i) + Buffer(i)

\* C3: validateRootBundle, on a pending proposal inside its challenge window
\* with a pool rebalance root that is not the empty sentinel and an end-block list
\* of the expected length, hands a disputeRootBundle transaction to the
\* multi-caller and rebuilds no root if an end block is below expectedStart[i] or
\* above expectedEnd[i] + buffer[i], whatever the other end blocks are.
C3_DisputeOutOfRangeEndBlocks ==
  (WellFormed(cycle) /\ (BelowStart(cycle) \/ AboveBuffer(cycle))) =>
    /\ Disputed(cycle)
    /\ cycle.roots = <<>>
    /\ cycle.thrown = NoError

\* A dispute for an end block above its head and buffer, while the end block of
\* another chain is above its head and within its buffer.
C3_Witness ==
  /\ WellFormed(cycle)
  /\ ~BelowStart(cycle)
  /\ AboveBuffer(cycle)
  /\ \E j \in 1..NumChains : WithinBuffer(cycle, j)
  /\ Disputed(cycle)

----------------------------------------------------------------------------
(* C4 *)

\* C4: validateRootBundle, on a pending proposal that reached the checks of the
\* end blocks, with every end block at least expectedStart[i], none above
\* expectedEnd[i] + buffer[i] and one above expectedEnd[i], where buffer[i] is 0
\* for a chain without a configured buffer, returns with no transaction enqueued
\* and no root rebuilt.
C4_DeferWithinBuffer ==
  (/\ WellFormed(cycle)
   /\ ~BelowStart(cycle)
   /\ ~AboveBuffer(cycle)
   /\ \E i \in 1..NumChains : PendingEnds(cycle)[i] > ExpectedEnd(cycle, i)) =>
    /\ EnqueuedNothing(cycle)
    /\ cycle.roots = <<>>
    /\ cycle.thrown = NoError

\* A deferred proposal: an end block one above the head, within the buffer.
C4_Witness ==
  /\ WellFormed(cycle)
  /\ ~BelowStart(cycle)
  /\ ~AboveBuffer(cycle)
  /\ \E i \in 1..NumChains : WithinBuffer(cycle, i)
  /\ EnqueuedNothing(cycle)

----------------------------------------------------------------------------
(* C5 *)

EmptyRootPending(c) == InWindow(c) /\ PendingOf(c).poolRebalanceRoot = EMPTY_MERKLE_ROOT

\* C5: validateRootBundle, on a pending proposal inside its challenge window
\* whose pool rebalance root is the empty sentinel, hands a disputeRootBundle
\* transaction to the multi-caller, whatever the end blocks, the leaf count and
\* the other roots are, before it reads a block number or rebuilds a root.
C5_DisputeEmptyPoolRebalanceRoot ==
  EmptyRootPending(cycle) =>
    /\ Disputed(cycle)
    /\ cycle.enqueued[1].mrkdwn = "Disputed pending root bundle with empty pool rebalance root"
    /\ cycle.reads = <<>>
    /\ cycle.roots = <<>>
    /\ cycle.thrown = NoError

\* The dispute of an empty root whose end-block list is too short.
C5_Witness ==
  /\ EmptyRootPending(cycle)
  /\ Len(PendingEnds(cycle)) # NumChains
  /\ Disputed(cycle)

----------------------------------------------------------------------------
(* C6 *)

NothingPending(c) == Validated(c) /\ c.clients.hubPoolClient.pendingRootBundle = NoProposal

WindowExpired(c) ==
  /\ Validated(c)
  /\ Len(c.clients.hubPoolClient.pendingRootBundle) = 1
  /\ c.clients.hubPoolClient.currentTime > PendingOf(c).challengePeriodEndTimestamp

\* C6: validateRootBundle enqueues no transaction when the HubPool client has no
\* pending proposal, and none when the current time is past the pending
\* proposal's challengePeriodEndTimestamp, whatever the pending roots and end
\* blocks are: it returns before the check of the empty root, before it reads a
\* block number and before it rebuilds a root.
C6_QuietWithoutPendingOrAfterWindow ==
  (NothingPending(cycle) \/ WindowExpired(cycle)) =>
    /\ EnqueuedNothing(cycle)
    /\ cycle.reads = <<>>
    /\ cycle.roots = <<>>
    /\ cycle.thrown = NoError

\* An expired proposal with the empty root and a list that is too short, left
\* alone.
C6_Witness ==
  /\ WindowExpired(cycle)
  /\ PendingOf(cycle).poolRebalanceRoot = EMPTY_MERKLE_ROOT
  /\ Len(PendingEnds(cycle)) # NumChains
  /\ EnqueuedNothing(cycle)

----------------------------------------------------------------------------
(* C7 *)

\* C7: validateRootBundle, on a pending proposal inside its challenge window
\* with a pool rebalance root that is not the empty sentinel, whose end-block list
\* has another length than the evaluation order, hands a disputeRootBundle
\* transaction to the multi-caller for the length, whatever the end blocks are,
\* and rebuilds no root.
C7_DisputeWrongLength ==
  (Candidate(cycle) /\ Len(PendingEnds(cycle)) # NumChains) =>
    /\ Disputed(cycle)
    /\ cycle.enqueued[1].mrkdwn =
         "Disputed pending root bundle with incorrect bundle block range length"
    /\ "Unexpected bundle block range length, disputing" \in Range(cycle.logs)
    /\ "A bundle end block is < expected start block, submitting dispute" \notin Range(cycle.logs)
    /\ cycle.roots = <<>>
    /\ cycle.thrown = NoError

\* The dispute of a list that is too short and whose first end block is below
\* its start block.
C7_Witness ==
  /\ Candidate(cycle)
  /\ Len(PendingEnds(cycle)) < NumChains
  /\ PendingEnds(cycle)[1] < ExpectedStart(cycle, 1)
  /\ Disputed(cycle)

----------------------------------------------------------------------------
(* C8 *)

\* The dispute for the relayer refund root
RefundRootDispute(c) ==
  /\ Rebuilt(c)
  /\ c.roots[1].poolRebalanceRoot = PendingOf(c).poolRebalanceRoot
  /\ Len(c.roots[1].poolRebalanceLeaves) = PendingOf(c).unclaimedPoolRebalanceLeafCount
  /\ c.roots[1].relayerRefundRoot # PendingOf(c).relayerRefundRoot
  /\ Len(c.enqueued) = 1

StartsWith(text, prefix) ==
  Len(prefix) <= Len(text) /\ SubSeq(text, 1, Len(prefix)) = prefix

\* C8 as stated: the Markdown payload of the dispute for the relayer refund
\* root cites "Unexpected relayer refund root".
C8_MarkdownCitesUnexpectedRefundRoot ==
  RefundRootDispute(cycle) =>
    Includes(cycle.enqueued[1].mrkdwn, "Unexpected relayer refund root")

\* C8: when validateRootBundle disputes because the pending relayer refund root
\* differs from the rebuilt one (pool rebalance root and leaf count matching), the
\* debug log entry of the cycle cites "Unexpected relayer refund root"; the
\* Markdown payload of the disputeRootBundle transaction is the summary of the
\* pending bundle, which starts with "Disputed pending root bundle:" and lists
\* the pending relayer refund root, followed by the summary of the rebuilt bundle.
C8_LogCitesUnexpectedRefundRoot ==
  RefundRootDispute(cycle) =>
    /\ Disputed(cycle)
    /\ "Unexpected relayer refund root, submitting dispute" \in Range(cycle.logs)
    /\ StartsWith(cycle.enqueued[1].mrkdwn, "Disputed pending root bundle:")
    /\ StartsWith(cycle.enqueued[1].mrkdwn,
                  _generateMarkdownForDispute(PendingOf(cycle)) \o "\n\n\t*Bundle blocks*:")
    /\ Includes(_generateMarkdownForDispute(PendingOf(cycle)),
                "\n\tRelayerRefund root: " \o
                  SubSeq(PendingOf(cycle).relayerRefundRoot, 1, 10) \o "\n")

\* The dispute of a proposal whose relayer refund root and slow relay root both
\* differ from the rebuilt ones.
C8_Witness ==
  /\ RefundRootDispute(cycle)
  /\ cycle.roots[1].slowRelayRoot # PendingOf(cycle).slowRelayRoot
  /\ Len(cycle.roots[1].relayerRefundLeaves) > 0
  /\ Disputed(cycle)

----------------------------------------------------------------------------
(* C9 *)

ProposedNothing(c, built) ==
  (built.error = NoError /\ Len(built.poolRebalanceLeaves) = 0) =>
    /\ EnqueuedNothing(c)
    /\ c.thrown = NoError
    /\ c.roots = <<built>>

\* C9: proposeRootBundle enqueues no transaction when the HubPool client has a
\* pending proposal, and returns then before it reads a block number or builds a
\* root; it enqueues none when the pool rebalance root built for the widest
\* block range has no leaf; when the HubPool client is not updated it fails with
\* an error and enqueues nothing.
C9_NoProposalWhenPendingOrEmptyOrNotUpdated ==
  Proposed(cycle) =>
    /\ ~cycle.clients.hubPoolClient.isUpdated =>
         /\ cycle.thrown = "HubPoolClient not updated"
         /\ EnqueuedNothing(cycle)
         /\ cycle.reads = <<>>
         /\ cycle.roots = <<>>
    /\ (cycle.clients.hubPoolClient.isUpdated /\
        cycle.clients.hubPoolClient.pendingRootBundle # NoProposal) =>
         /\ cycle.thrown = NoError
         /\ EnqueuedNothing(cycle)
         /\ cycle.reads = <<>>
         /\ cycle.roots = <<>>
    /\ ProposedFresh(cycle) =>
         ProposedNothing(cycle, BuildRoots(WidestRangesRead(cycle), cycle.clients,
                                           spokePoolEvents))

\* A cycle that built the roots of a range with fills and deposits of which
\* none counts, and proposed nothing.
C9_Witness ==
  /\ ProposedFresh(cycle)
  /\ Len(cycle.roots) = 1
  /\ Len(cycle.roots[1].poolRebalanceLeaves) = 0
  /\ \A i \in 1..NumChains : ExpectedEnd(cycle, i) >= ExpectedStart(cycle, i)
  /\ EnqueuedNothing(cycle)

----------------------------------------------------------------------------
(* C10 *)

ProposedOnce(c, built) ==
  (built.error = NoError /\ Len(built.poolRebalanceLeaves) > 0) =>
    /\ EnqueuedOne(c)
    /\ c.enqueued[1].method = "proposeRootBundle"
    /\ c.enqueued[1].chainId = hubPoolChainId
    /\ c.enqueued[1].args =
         <<[i \in 1..NumChains |-> ExpectedEnd(c, i)],
           Len(built.poolRebalanceLeaves),
           built.poolRebalanceRoot, built.relayerRefundRoot, built.slowRelayRoot>>
    /\ c.thrown = NoError

\* C10: when proposeRootBundle proposes (HubPool client updated, no pending
\* proposal, a pool rebalance leaf), it hands exactly one transaction to the
\* multi-caller, a proposeRootBundle with the arguments (bundleEndBlocks,
\* leafCount, poolRebalanceRoot, relayerRefundRoot, slowRelayRoot), where
\* bundleEndBlocks[i] is the block number read for the i-th chain of the
\* evaluation order, in whatever order the queries completed, leafCount is the
\* number of pool rebalance leaves, and the roots are those built over the
\* ranges [nextBundleStartBlock_i, latestBlock_i].
C10_ProposeArgsIndexAligned ==
  ProposedFresh(cycle) =>
    ProposedOnce(cycle, BuildRoots(WidestRangesRead(cycle), cycle.clients, spokePoolEvents))

\* A proposal made after the query of the second chain completed before the
\* query of the first, with another block number.
C10_Witness ==
  /\ ProposedFresh(cycle)
  /\ Len(cycle.enqueued) = 1
  /\ Len(cycle.reads) = NumChains
  /\ cycle.reads[1][1] = ChainAt(2)
  /\ cycle.reads[1][2] # cycle.reads[2][2]
  /\ cycle.enqueued[1].args[1] = <<cycle.reads[2][2], cycle.reads[1][2]>>
  /\ ~cycle.enqueueThrew

----------------------------------------------------------------------------
(* What a bundle was built from and what the loader returned, read off the   *)
(* record of the builds                                                      *)

Loaded == bundle # <<>> /\ bundle.data # <<>>

Data == bundle.data[1]

\* The block range of the chain in the bundle's list
RangeOf(chainId) ==
  bundle.blockRangesForChains[IndexOf(chainIdListForBundleEvaluationBlockNumbers, chainId)]

RecordedFills == Range(spokePoolEvents.fills)

\* The fill repeats the (originChainId, depositId) of a deposit of the logs
Matches(fill, deposit) ==
  fill.originChainId = deposit.originChainId /\ fill.depositId = deposit.depositId

HasDeposit(fill) == \E deposit \in Range(spokePoolEvents.deposits) : Matches(fill, deposit)

InBlockRange(event, chainId) ==
  RangeOf(chainId)[1] <= event.blockNumber /\ event.blockNumber <= RangeOf(chainId)[2]

ValidInRange(fill) == HasDeposit(fill) /\ InBlockRange(fill, fill.destinationChainId)

ValidOutOfRange(fill) == HasDeposit(fill) /\ ~InBlockRange(fill, fill.destinationChainId)

\* The fills appended to the groups of fillsToRefund
CreditedFills(fillsToRefund) ==
  UNION {Range(fillsToRefund[g].fills) : g \in DOMAIN fillsToRefund}

\* How many times the list holds the entry
Occurrences(list, entry) == Cardinality({i \in DOMAIN list : list[i] = entry})

----------------------------------------------------------------------------
\* C11: In _loadData every fill a destination client recorded is in exactly one
\* of three classes: invalid (no deposit of the origin client's history matches
\* it), valid and out of range, valid and in range (s_i <= blockNumber <= e_i,
\* both ends included, for its destination chain); every valid fill is in
\* allValidFills, in range or not, and only the valid fills of the range are
\* credited to fillsToRefund or used for the unfilled deposits.
C11_FillClassificationPartition ==
  Loaded =>
    /\ Data.error = NoError
    /\ \A fill \in RecordedFills :
         /\ Occurrences(Data.allValidFills, fill) + Occurrences(Data.allInvalidFills, fill) = 1
         /\ Occurrences(Data.allInvalidFills, fill) = 1 <=> ~HasDeposit(fill)
         /\ Occurrences(Data.allValidFills, fill) = 1
              <=> (ValidInRange(fill) \/ ValidOutOfRange(fill))
         /\ FillOf(fill) \in CreditedFills(Data.fillsToRefund) <=> ValidInRange(fill)
    /\ Range(Data.allValidFills) \cup Range(Data.allInvalidFills) = RecordedFills
    /\ CreditedFills(Data.fillsToRefund) = {FillOf(fill) : fill \in {f \in RecordedFills : ValidInRange(f)}}
    /\ \A u \in Range(Data.unfilledDeposits) :
         /\ \E fill \in RecordedFills :
              /\ ValidInRange(fill) /\ Matches(fill, u.deposit)
              /\ u.unfilledAmount = fill.amount - fill.totalFilledAmount
         /\ \A fill \in RecordedFills :
              Matches(fill, u.deposit) /\ u.unfilledAmount > fill.amount - fill.totalFilledAmount
                => ~ValidInRange(fill)

\* The logs hold a fill of each class, a credited fill of the first block of its
\* range and one of the last, and a fill out of range of a deposit that is
\* returned unfilled.
C11_Witness ==
  /\ Loaded
  /\ \E fill \in RecordedFills : ~HasDeposit(fill)
  /\ \E fill \in RecordedFills :
       /\ ValidInRange(fill)
       /\ fill.blockNumber = RangeOf(fill.destinationChainId)[1]
       /\ fill.blockNumber < RangeOf(fill.destinationChainId)[2]
  /\ \E fill \in RecordedFills :
       /\ ValidInRange(fill)
       /\ fill.blockNumber = RangeOf(fill.destinationChainId)[2]
       /\ fill.blockNumber > RangeOf(fill.destinationChainId)[1]
  /\ \E fill \in RecordedFills, u \in Range(Data.unfilledDeposits) :
       /\ ValidOutOfRange(fill)
       /\ Matches(fill, u.deposit)
       /\ fill.blockNumber > RangeOf(fill.destinationChainId)[2]

----------------------------------------------------------------------------
(* Two builds over the same block ranges *)

BuiltAgain == bundle # <<>> /\ bundle.again # <<>>

Again == bundle.again[1]

\* The three roots of the first build, as the controllers hold them
FirstRoots ==
  ThreeRoots(bundle.blockRangesForChains, bundle.poolRebalanceRoot[1],
             bundle.relayerRefundRoot[1], bundle.slowRelayRoot[1])

\* The fills of the logs that match a deposit of the logs, in the logs' order
MatchedFills(events) ==
  SelectIdx(events.fills, {i \in DOMAIN events.fills : Matched(events, events.fills[i])})

\* The two event logs differ only by fills that match no deposit, and do differ
DifferByUnmatchedFills(eventsA, eventsB) ==
  /\ eventsA.deposits = eventsB.deposits
  /\ MatchedFills(eventsA) = MatchedFills(eventsB)
  /\ eventsA.fills # eventsB.fills

\* The proposals a validator may find pending for the block ranges of the bundle:
\* what the first build gives, as it is or with another slow relay root or
\* another leaf count.
PendingForFirstRoots ==
  {TamperedProposal(FirstRoots,
                    [i \in DOMAIN bundle.blockRangesForChains |->
                       bundle.blockRangesForChains[i][2]],
                    tamper, Liveness) : tamper \in {"none", "slowRoot", "leafCount"}}

\* C12: Fills that match no deposit never influence a root: for two event logs
\* that differ only by such fills, _loadData returns the same fillsToRefund,
\* unfilledDeposits, allValidFills and deposits, the three builders return the
\* same leaves and roots, and validateRootBundle ends the same way (the same
\* logs, the same rebuilt roots, the same transaction or none) whatever
\* proposal is pending.
C12_UnmatchedFillsInfluenceNoRoot ==
  (BuiltAgain /\ DifferByUnmatchedFills(spokePoolEvents, Again.events)) =>
    /\ Again.data.error = NoError /\ Data.error = NoError
    /\ Again.data.fillsToRefund = Data.fillsToRefund
    /\ Again.data.unfilledDeposits = Data.unfilledDeposits
    /\ Again.data.allValidFills = Data.allValidFills
    /\ Again.data.deposits = Data.deposits
    /\ Again.roots = FirstRoots
    /\ \A pendingRootBundle \in PendingForFirstRoots :
         validateRootBundleRebuilding(pendingRootBundle, Again.roots)
           = validateRootBundleRebuilding(pendingRootBundle, FirstRoots)

\* The second logs hold an unmatched fill of the range that the first lack, or
\* lack one the first hold, and the builds have leaves in each of the three
\* roots.
C12_Witness ==
  /\ BuiltAgain
  /\ DifferByUnmatchedFills(spokePoolEvents, Again.events)
  /\ Again.data.allInvalidFills # Data.allInvalidFills
  /\ \E fill \in Range(Again.data.allInvalidFills) \cup Range(Data.allInvalidFills) :
       InBlockRange(fill, fill.destinationChainId)
  /\ Again.roots.poolRebalanceLeaves # <<>>
  /\ Again.roots.relayerRefundLeaves # <<>>
  /\ Again.roots.slowRelayLeaves # <<>>

----------------------------------------------------------------------------
(* Unfilled deposits *)

Max(a, b) == IF a > b THEN a ELSE b

\* The greatest totalFilledAmount over the fills of the set; 0 for no fill
MaxTotalFilledAmount(fills) ==
  IF fills = {} THEN 0
  ELSE (CHOOSE fill \in fills :
          \A other \in fills : fill.totalFilledAmount >= other.totalFilledAmount).totalFilledAmount

\* The recorded fills of the deposit, and those of them inside the block range
\* of their chain
FillsOf(deposit) == {fill \in RecordedFills : Matches(fill, deposit)}

FillsInRangeOf(deposit) == {fill \in FillsOf(deposit) : ValidInRange(fill)}

\* At most one returned UnfilledDeposit per (originChainId, depositId)
OnePerDeposit(unfilledDeposits) ==
  \A i, j \in DOMAIN unfilledDeposits :
    (/\ unfilledDeposits[i].deposit.originChainId = unfilledDeposits[j].deposit.originChainId
     /\ unfilledDeposits[i].deposit.depositId = unfilledDeposits[j].deposit.depositId)
      => i = j

\* C13 as stated: Every UnfilledDeposit _loadData returns has a strictly positive
\* unfilledAmount, equal to deposit.amount minus the greatest totalFilledAmount
\* over the deposit's fills; a deposit whose fills reach its full amount is not
\* returned; there is at most one UnfilledDeposit per (originChainId, depositId).
C13_UnfilledAmountOverAllFills ==
  Loaded =>
    /\ \A u \in Range(Data.unfilledDeposits) :
         /\ u.unfilledAmount > 0
         /\ u.unfilledAmount = u.deposit.amount - MaxTotalFilledAmount(FillsOf(u.deposit))
    /\ \A deposit \in Range(spokePoolEvents.deposits) :
         MaxTotalFilledAmount(FillsOf(deposit)) >= deposit.amount
           => \A u \in Range(Data.unfilledDeposits) : u.deposit # deposit
    /\ OnePerDeposit(Data.unfilledDeposits)

\* C13 as amended: Every UnfilledDeposit _loadData returns has a strictly
\* positive unfilledAmount, equal to deposit.amount minus the greatest
\* totalFilledAmount over the deposit's fills inside the block range of their
\* chain, of which there is at least one; a deposit whose fills inside the range
\* reach its full amount is not returned; there is at most one UnfilledDeposit
\* per (originChainId, depositId).
C13_UnfilledAmountOverFillsInRange ==
  Loaded =>
    /\ \A u \in Range(Data.unfilledDeposits) :
         /\ u.unfilledAmount > 0
         /\ FillsInRangeOf(u.deposit) # {}
         /\ u.deposit \in Range(spokePoolEvents.deposits)
         /\ u.unfilledAmount
              = u.deposit.amount - MaxTotalFilledAmount(FillsInRangeOf(u.deposit))
    /\ \A deposit \in Range(spokePoolEvents.deposits) :
         (\E u \in Range(Data.unfilledDeposits) : u.deposit = deposit)
           <=> (/\ FillsInRangeOf(deposit) # {}
                /\ MaxTotalFilledAmount(FillsInRangeOf(deposit)) < deposit.amount)
    /\ OnePerDeposit(Data.unfilledDeposits)

\* The loader returns a deposit with two fills in the range, unfilled by what the
\* later one leaves, and does not return a deposit that a fill of the range
\* fills whole, nor a deposit whose only fill is before the range.
C13_Witness ==
  /\ Loaded
  /\ \E u \in Range(Data.unfilledDeposits) :
       /\ Cardinality(FillsInRangeOf(u.deposit)) = 2
       /\ u.unfilledAmount < u.deposit.amount
  /\ \E deposit \in Range(spokePoolEvents.deposits) :
       /\ MaxTotalFilledAmount(FillsInRangeOf(deposit)) = deposit.amount
       /\ \A u \in Range(Data.unfilledDeposits) : u.deposit # deposit
  /\ \E deposit \in Range(spokePoolEvents.deposits) :
       /\ FillsOf(deposit) # {} /\ FillsInRangeOf(deposit) = {}
       /\ \A u \in Range(Data.unfilledDeposits) : u.deposit # deposit

----------------------------------------------------------------------------
(* Refund groups and their leaves *)

RefundRootBuilt ==
  /\ Loaded
  /\ bundle.relayerRefundRoot # <<>>
  /\ bundle.relayerRefundRoot[1].error = NoError

RefundLeaves == bundle.relayerRefundRoot[1].leaves

\* The positions of the leaves of the (chainId, l2TokenAddress) pair in the list
LeavesOfPair(leaves, chainId, l2TokenAddress) ==
  {i \in DOMAIN leaves :
     leaves[i].chainId = chainId /\ leaves[i].l2TokenAddress = l2TokenAddress}

\* The sum of the refundAmounts of the leaves at the positions
RECURSIVE SumOfRefundAmounts(_, _)
SumOfRefundAmounts(leaves, positions) ==
  IF positions = {} THEN 0
  ELSE LET i == CHOOSE p \in positions : TRUE
       IN SeqSum(leaves[i].refundAmounts) + SumOfRefundAmounts(leaves, positions \ {i})

\* fillAmount * (1 - realizedLpFeePct), in the fixed-point arithmetic of the
\* code, summed over the fills of the list that satisfy the flag
RefundsOwed(fills, slowRelaysToo) ==
  SeqSum([i \in DOMAIN fills |->
            IF fills[i].isSlowRelay /\ ~slowRelaysToo THEN 0
            ELSE (fills[i].fillAmount * (toBNWei1 - fills[i].realizedLpFeePct)) \div toBNWei1])

----------------------------------------------------------------------------
(* Amounts to return *)

PoolAndRefundBuilt ==
  /\ RefundRootBuilt
  /\ bundle.poolRebalanceRoot # <<>>
  /\ bundle.poolRebalanceRoot[1].error = NoError

PoolRoot == bundle.poolRebalanceRoot[1]

\* The end block of mainnet in the bundle's block ranges
EndBlockForMainnet == RangeOf(1)[2]

\* The net send amounts the pool rebalance leaves carry for the chain and the L1
\* token: one, if the root has an entry for the pair
NetSendAmountsEmitted(chainId, l1Token) ==
  {PoolRoot.leaves[n].netSendAmounts[i] :
     <<n, i>> \in {p \in UNION {{<<m, j>> : j \in DOMAIN PoolRoot.leaves[m].l1Tokens} :
                                  m \in DOMAIN PoolRoot.leaves} :
                     /\ PoolRoot.leaves[p[1]].chainId = chainId
                     /\ PoolRoot.leaves[p[1]].l1Tokens[p[2]] = l1Token}}

\* The transfer-threshold policy: the whole balance when it is at least the
\* threshold in absolute value, else nothing
ThresholdPolicy(transferThreshold, runningBalance) ==
  IF runningBalance >= transferThreshold \/ 0 - runningBalance >= transferThreshold
  THEN runningBalance ELSE 0

\* The leaves built for the refunds of the group, with their groupIndex
SubLeavesOf(group) ==
  {i \in DOMAIN bundle.relayerRefundLeaves :
     /\ bundle.relayerRefundLeaves[i].chainId = group.repaymentChainId
     /\ bundle.relayerRefundLeaves[i].l2TokenAddress = group.l2TokenAddress}

\* C15: For every refund group (chainId, l2Token) of buildRelayerRefundRoot, the
\* first sub-leaf (groupIndex 0) has amountToReturn = -netSendAmount when
\* netSendAmount < 0 and 0 otherwise, netSendAmount being the transfer-threshold
\* policy applied to the pool rebalance running balance of the chain and of the
\* L1 counterpart of the token at the end block of mainnet, which is the
\* netSendAmount the pool rebalance root emits for the chain and the token; every
\* other sub-leaf has amountToReturn 0; no amountToReturn is negative.
C15_FirstSubLeafReturnsNegatedNetSend ==
  PoolAndRefundBuilt =>
    /\ \A g \in DOMAIN Data.fillsToRefund :
         LET group == Data.fillsToRefund[g]
             l1Token == getL1TokenCounterpartAtBlock(group.repaymentChainId,
                                                     group.l2TokenAddress, EndBlockForMainnet)
             netSendAmount ==
               ThresholdPolicy(getTokenTransferThresholdForBlock(l1Token, EndBlockForMainnet),
                               PoolRoot.runningBalances[<<group.repaymentChainId, l1Token>>])
         IN /\ NetSendAmountsEmitted(group.repaymentChainId, l1Token) = {netSendAmount}
            /\ \A i \in SubLeavesOf(group) :
                 bundle.relayerRefundLeaves[i].amountToReturn =
                   IF bundle.relayerRefundLeaves[i].groupIndex # 0 THEN 0
                   ELSE IF netSendAmount < 0 THEN 0 - netSendAmount ELSE 0
            /\ group.refunds # <<>> =>
                 Cardinality({i \in SubLeavesOf(group) :
                                bundle.relayerRefundLeaves[i].groupIndex = 0}) = 1
    /\ \A i \in DOMAIN bundle.relayerRefundLeaves :
         bundle.relayerRefundLeaves[i].amountToReturn >= 0
    /\ \A i \in DOMAIN RefundLeaves : RefundLeaves[i].amountToReturn >= 0

\* A group of two sub-leaves whose first returns tokens, and a group whose chain
\* is sent tokens and returns none.
C15_Witness ==
  /\ PoolAndRefundBuilt
  /\ \E g \in DOMAIN Data.fillsToRefund :
       /\ Cardinality(SubLeavesOf(Data.fillsToRefund[g])) >= 2
       /\ \E i \in SubLeavesOf(Data.fillsToRefund[g]) :
            /\ bundle.relayerRefundLeaves[i].groupIndex = 0
            /\ bundle.relayerRefundLeaves[i].amountToReturn > 0
  /\ \E g \in DOMAIN Data.fillsToRefund :
       /\ SubLeavesOf(Data.fillsToRefund[g]) # {}
       /\ \E n \in NetSendAmountsEmitted(
                     Data.fillsToRefund[g].repaymentChainId,
                     getL1TokenCounterpartAtBlock(Data.fillsToRefund[g].repaymentChainId,
                                                  Data.fillsToRefund[g].l2TokenAddress,
                                                  EndBlockForMainnet)) : n > 0

----------------------------------------------------------------------------
(* Running balances *)

PoolRootBuilt ==
  /\ Loaded
  /\ bundle.poolRebalanceRoot # <<>>
  /\ bundle.poolRebalanceRoot[1].error = NoError

Reversed(list) == [i \in DOMAIN list |-> list[Len(list) + 1 - i]]

\* The refund credits of the chain in the L1 token: the total refund amounts of
\* the groups of the chain whose token has this L1 counterpart at the end block
\* of mainnet
RefundCredits(fillsToRefund, chainId, l1Token) ==
  SeqSum([g \in DOMAIN fillsToRefund |->
            IF /\ fillsToRefund[g].repaymentChainId = chainId
               /\ getL1TokenCounterpartAtBlock(chainId, fillsToRefund[g].l2TokenAddress,
                                               EndBlockForMainnet) = l1Token
            THEN fillsToRefund[g].totalRefundAmount ELSE 0])

\* The excess of previous slow fills over the valid fills whose destination is the
\* chain, in the L1 token
SlowFillExcess(allValidFills, chainId, l1Token) ==
  SeqSum([i \in DOMAIN allValidFills |->
            IF /\ allValidFills[i].destinationChainId = chainId
               /\ getL1TokenCounterpartAtBlock(chainId, allValidFills[i].destinationToken, 0)
                    = l1Token
            THEN ExcessFromPreviousSlowFill(allValidFills[i], allValidFills,
                                            bundle.blockRangesForChains,
                                            hubPoolClient.nextBundleStartBlockNumber)
            ELSE 0])

\* The amounts of the deposits of the range made on the chain in the L1 token
DepositedInRange(deposits, chainId, l1Token) ==
  SeqSum([i \in DOMAIN deposits |->
            IF /\ deposits[i].originChainId = chainId
               /\ getL1TokenCounterpartAtBlock(chainId, deposits[i].originToken,
                                               deposits[i].blockNumber) = l1Token
            THEN deposits[i].amount ELSE 0])

\* The running balance buildPoolRebalanceRoot returns for the pair; 0 for none
ReturnedBalance(chainId, l1Token) ==
  IF <<chainId, l1Token>> \in DOMAIN PoolRoot.runningBalances
  THEN PoolRoot.runningBalances[<<chainId, l1Token>>] ELSE 0

\* The running balances when the three updates are applied in other orders: the
\* deposits before the excess corrections, the deposits last to first, the
\* groups credited last to first
BalancesInOtherOrders ==
  LET initial == initializeRunningBalancesFromRelayerRepayments(EndBlockForMainnet,
                                                                Data.fillsToRefund)
      reversed == initializeRunningBalancesFromRelayerRepayments(
                    EndBlockForMainnet, Reversed(Data.fillsToRefund))
  IN {subtractExcessFromPreviousSlowFillsFromRunningBalances(
        SubtractDeposits(initial.runningBalances, Data.deposits), Data.allValidFills,
        bundle.blockRangesForChains, hubPoolClient.nextBundleStartBlockNumber),
      SubtractDeposits(
        subtractExcessFromPreviousSlowFillsFromRunningBalances(
          initial.runningBalances, Data.allValidFills, bundle.blockRangesForChains,
          hubPoolClient.nextBundleStartBlockNumber),
        Reversed(Data.deposits)),
      SubtractDeposits(
        subtractExcessFromPreviousSlowFillsFromRunningBalances(
          reversed.runningBalances, Data.allValidFills, bundle.blockRangesForChains,
          hubPoolClient.nextBundleStartBlockNumber),
        Data.deposits)}

\* C16: Running-balance identity: for every chain and L1 token, the running
\* balance buildPoolRebalanceRoot returns is the refund credits (in L1 units)
\* minus the slow-fill excess minus the sum of the amounts of the deposits of the
\* range made on the chain in the token (a pair has a balance exactly when one of
\* the three touches it), and the balances are the same in whatever order the
\* credits, the excess corrections and the deposit subtractions are applied.
C16_RunningBalanceIdentity ==
  PoolRootBuilt =>
    /\ \A chainId \in Chains, l1Token \in L1Tokens :
         /\ ReturnedBalance(chainId, l1Token)
              = RefundCredits(Data.fillsToRefund, chainId, l1Token)
                - SlowFillExcess(Data.allValidFills, chainId, l1Token)
                - DepositedInRange(Data.deposits, chainId, l1Token)
         /\ <<chainId, l1Token>> \in DOMAIN PoolRoot.runningBalances
              <=> \/ \E g \in DOMAIN Data.fillsToRefund :
                       /\ Data.fillsToRefund[g].repaymentChainId = chainId
                       /\ getL1TokenCounterpartAtBlock(
                            chainId, Data.fillsToRefund[g].l2TokenAddress,
                            EndBlockForMainnet) = l1Token
                  \/ SlowFillExcess(Data.allValidFills, chainId, l1Token) # 0
                  \/ \E i \in DOMAIN Data.deposits :
                       /\ Data.deposits[i].originChainId = chainId
                       /\ getL1TokenCounterpartAtBlock(
                            chainId, Data.deposits[i].originToken,
                            Data.deposits[i].blockNumber) = l1Token
    /\ DOMAIN PoolRoot.runningBalances \subseteq Chains \X L1Tokens
    /\ BalancesInOtherOrders = {PoolRoot.runningBalances}

\* A chain with refund credits, an excess of a previous slow fill and a deposit
\* of the range, whose balance is not 0, in a bundle of at least two deposits
\* and two refund groups.
C16_Witness ==
  /\ PoolRootBuilt
  /\ \E chainId \in Chains, l1Token \in L1Tokens :
       /\ RefundCredits(Data.fillsToRefund, chainId, l1Token) > 0
       /\ SlowFillExcess(Data.allValidFills, chainId, l1Token) > 0
       /\ DepositedInRange(Data.deposits, chainId, l1Token) > 0
       /\ ReturnedBalance(chainId, l1Token) # 0
  /\ Len(Data.deposits) >= 2
  /\ Len(Data.fillsToRefund) >= 2

----------------------------------------------------------------------------
(* Two enumerations of the same events *)

\* The two logs hold the same deposits and the same fills
SameEvents(eventsA, eventsB) ==
  /\ Range(eventsA.deposits) = Range(eventsB.deposits)
  /\ Len(eventsA.deposits) = Len(eventsB.deposits)
  /\ Range(eventsA.fills) = Range(eventsB.fills)
  /\ Len(eventsA.fills) = Len(eventsB.fills)

\* The (repaymentChainId, l2TokenAddress) pairs of the groups, in insertion order
GroupKeys(fillsToRefund) ==
  [g \in DOMAIN fillsToRefund |->
     <<fillsToRefund[g].repaymentChainId, fillsToRefund[g].l2TokenAddress>>]

\* The relayers of the refunds of each group, in insertion order
Recipients(fillsToRefund) ==
  {[i \in DOMAIN fillsToRefund[g].refunds |-> fillsToRefund[g].refunds[i].relayer] :
     g \in DOMAIN fillsToRefund}

\* C17: Determinism: for fixed deposits, fills and configuration, a second build
\* of each of the three roots gives the same leaf list and the same root; and
\* the leaf lists of buildSlowRelayRoot and buildRelayerRefundRoot depend only on
\* the set of deposits and fills, not on the order in which the clients
\* enumerate them nor on the order in which the groups and the recipients were
\* inserted into fillsToRefund.
C17_RootsIndependentOfEnumerationOrder ==
  (BuiltAgain /\ SameEvents(spokePoolEvents, Again.events)) =>
    /\ Again.roots.error = NoError /\ FirstRoots.error = NoError
    /\ Again.roots.slowRelayLeaves = FirstRoots.slowRelayLeaves
    /\ Again.roots.slowRelayRoot = FirstRoots.slowRelayRoot
    /\ Again.roots.relayerRefundLeaves = FirstRoots.relayerRefundLeaves
    /\ Again.roots.relayerRefundRoot = FirstRoots.relayerRefundRoot
    /\ Again.events = spokePoolEvents => Again.roots = FirstRoots

\* The second build enumerates the fills in another order, which inserts the
\* groups of a chain and the recipients of a group in another order, and returns
\* the unfilled deposits in another order; the roots have several leaves.
C17_Witness ==
  /\ BuiltAgain
  /\ SameEvents(spokePoolEvents, Again.events)
  /\ Again.events.fills # spokePoolEvents.fills
  /\ Again.events.deposits # spokePoolEvents.deposits
  /\ GroupKeys(Again.data.fillsToRefund) # GroupKeys(Data.fillsToRefund)
  /\ Recipients(Again.data.fillsToRefund) # Recipients(Data.fillsToRefund)
  /\ Again.data.unfilledDeposits # Data.unfilledDeposits
  /\ Len(FirstRoots.slowRelayLeaves) >= 2
  /\ Len(FirstRoots.relayerRefundLeaves) >= 3

----------------------------------------------------------------------------
(* The leaves of buildSlowRelayRoot *)

SlowRootBuilt ==
  /\ Loaded
  /\ bundle.slowRelayRoot # <<>>
  /\ bundle.slowRelayRoot[1].error = NoError

SlowRelayLeaves == bundle.slowRelayRoot[1].leaves

\* Leaf a comes strictly before leaf b: by originChainId, then by depositId
StrictlyBefore(a, b) ==
  \/ a.originChainId < b.originChainId
  \/ a.originChainId = b.originChainId /\ a.depositId < b.depositId

\* C18: buildSlowRelayRoot emits exactly one leaf per UnfilledDeposit that
\* _loadData returns, the leaf carries the relay data of the deposit with the
\* deposit's full amount (not the unfilled remainder), and the leaf list is
\* strictly ascending by originChainId and then by depositId, so no two leaves
\* share (originChainId, depositId).
C18_OneSlowRelayLeafPerUnfilledDeposit ==
  SlowRootBuilt =>
    /\ Len(SlowRelayLeaves) = Len(Data.unfilledDeposits)
    /\ \A u \in DOMAIN Data.unfilledDeposits :
         Cardinality({i \in DOMAIN SlowRelayLeaves :
                        /\ SlowRelayLeaves[i] = RelayDataOf(Data.unfilledDeposits[u].deposit)
                        /\ SlowRelayLeaves[i].amount = Data.unfilledDeposits[u].deposit.amount}) = 1
    /\ \A i \in DOMAIN SlowRelayLeaves :
         \E u \in DOMAIN Data.unfilledDeposits :
           SlowRelayLeaves[i] = RelayDataOf(Data.unfilledDeposits[u].deposit)
    /\ \A i, j \in DOMAIN SlowRelayLeaves :
         i < j => StrictlyBefore(SlowRelayLeaves[i], SlowRelayLeaves[j])
    /\ \A i, j \in DOMAIN SlowRelayLeaves :
         (/\ SlowRelayLeaves[i].originChainId = SlowRelayLeaves[j].originChainId
          /\ SlowRelayLeaves[i].depositId = SlowRelayLeaves[j].depositId) => i = j

\* Three unfilled deposits, two of one origin chain returned in descending order
\* of depositId, one of them with an unfilled remainder below its amount.
C18_Witness ==
  /\ SlowRootBuilt
  /\ Len(SlowRelayLeaves) >= 3
  /\ \E u, v \in DOMAIN Data.unfilledDeposits :
       /\ u < v
       /\ StrictlyBefore(Data.unfilledDeposits[v].deposit, Data.unfilledDeposits[u].deposit)
  /\ \E u \in DOMAIN Data.unfilledDeposits :
       /\ Data.unfilledDeposits[u].unfilledAmount > 0
       /\ Data.unfilledDeposits[u].unfilledAmount < Data.unfilledDeposits[u].deposit.amount

----------------------------------------------------------------------------
(* The sub-leaves of a refund group *)

MaxRefundCount == maxRefundCountFor(EndBlockForMainnet)

\* The sub-leaf of the group with the group index
SubLeafAt(group, groupIndex) ==
  bundle.relayerRefundLeaves[
    CHOOSE i \in SubLeavesOf(group) : bundle.relayerRefundLeaves[i].groupIndex = groupIndex]

\* The recipients of the sub-leaves of the group, concatenated in groupIndex
\* order, each with the amount at its index
RECURSIVE Concatenated(_, _, _)
Concatenated(group, groupIndex, count) ==
  IF count = 0 THEN <<>>
  ELSE LET leaf == SubLeafAt(group, groupIndex)
       IN [i \in DOMAIN leaf.refundAddresses |->
             [relayer |-> leaf.refundAddresses[i], amount |-> leaf.refundAmounts[i]]]
          \o Concatenated(group, groupIndex + MaxRefundCount, count - 1)

\* The list is in descending order of amount, equal amounts in ascending order of
\* address
DescendingAmountThenAddress(recipients) ==
  \A i, j \in DOMAIN recipients :
    i < j => \/ recipients[i].amount > recipients[j].amount
             \/ /\ recipients[i].amount = recipients[j].amount
                /\ recipients[i].relayer < recipients[j].relayer

\* C19: In buildRelayerRefundRoot, for every (repaymentChainId, l2Token) group
\* with n >= 1 recipients and chunk size m = maxRefundCount: the sub-leaves have
\* the group indices 0, m, 2m, ... (their start offsets), each holds at most m
\* recipients with refundAddresses and refundAmounts index-aligned, and the
\* sub-leaves concatenated in groupIndex order give exactly the recipients sorted
\* by descending refund amount and then ascending address, each recipient once
\* with its refund amount.
C19_SubLeavesChunkSortedRecipients ==
  RefundRootBuilt =>
    \A g \in DOMAIN Data.fillsToRefund :
      LET group == Data.fillsToRefund[g]
          n == Len(group.refunds)
          count == (n + MaxRefundCount - 1) \div MaxRefundCount
          leaves == bundle.relayerRefundLeaves
      IN n >= 1 =>
           /\ Cardinality(SubLeavesOf(group)) = count
           /\ {leaves[i].groupIndex : i \in SubLeavesOf(group)} =
                {k * MaxRefundCount : k \in 0..(count - 1)}
           /\ \A i \in SubLeavesOf(group) :
                /\ Len(leaves[i].refundAddresses) <= MaxRefundCount
                /\ Len(leaves[i].refundAddresses) >= 1
                /\ Len(leaves[i].refundAmounts) = Len(leaves[i].refundAddresses)
           /\ Len(Concatenated(group, 0, count)) = n
           /\ Range(Concatenated(group, 0, count)) = Range(group.refunds)
           /\ DescendingAmountThenAddress(Concatenated(group, 0, count))
           /\ \E first \in DOMAIN RefundLeaves :
                \A k \in 0..(count - 1) :
                  /\ first + k \in DOMAIN RefundLeaves
                  /\ RefundLeaves[first + k].chainId = group.repaymentChainId
                  /\ RefundLeaves[first + k].l2TokenAddress = group.l2TokenAddress
                  /\ RefundLeaves[first + k].refundAddresses =
                       SubLeafAt(group, k * MaxRefundCount).refundAddresses
                  /\ RefundLeaves[first + k].refundAmounts =
                       SubLeafAt(group, k * MaxRefundCount).refundAmounts

\* A group of three recipients in two sub-leaves, the chunk size being 2: two of
\* the recipients are owed the same amount and were inserted in descending order
\* of address, and the recipient owed most was not inserted first.
C19_Witness ==
  /\ RefundRootBuilt
  /\ MaxRefundCount = 2
  /\ \E g \in DOMAIN Data.fillsToRefund :
       LET group == Data.fillsToRefund[g]
       IN /\ Len(group.refunds) = 3
          /\ Cardinality(SubLeavesOf(group)) = 2
          /\ \E i, j \in DOMAIN group.refunds :
               /\ i < j
               /\ group.refunds[i].amount = group.refunds[j].amount
               /\ group.refunds[i].relayer > group.refunds[j].relayer
          /\ \E i, j \in DOMAIN group.refunds :
               i < j /\ group.refunds[i].amount < group.refunds[j].amount

----------------------------------------------------------------------------
(* Leaves that only return tokens *)

PoolBuiltAndRefundCalled ==
  /\ PoolRootBuilt
  /\ Data.error = NoError
  /\ bundle.relayerRefundRoot # <<>>

\* The (leaf, index) positions of the pool rebalance leaves
PoolPositions ==
  UNION {{<<n, i>> : i \in DOMAIN PoolRoot.leaves[n].netSendAmounts} :
           n \in DOMAIN PoolRoot.leaves}

NetSendAmountAt(position) == PoolRoot.leaves[position[1]].netSendAmounts[position[2]]

LeafChainAt(position) == PoolRoot.leaves[position[1]].chainId

\* The L2 counterpart, on the leaf's chain, of the L1 token at the position
L2TokenAt(position) ==
  getDestinationTokenForL1TokenDestinationChainId(
    PoolRoot.leaves[position[1]].l1Tokens[position[2]], LeafChainAt(position))

\* A group of fillsToRefund with recipients has the pair as its key
HasRecipients(chainId, l2TokenAddress) ==
  \E g \in DOMAIN Data.fillsToRefund :
    /\ Data.fillsToRefund[g].repaymentChainId = chainId
    /\ Data.fillsToRefund[g].l2TokenAddress = l2TokenAddress
    /\ Data.fillsToRefund[g].refunds # <<>>

\* The leaf has no recipients
ReturnsOnly(leaf) == leaf.refundAddresses = <<>> /\ leaf.refundAmounts = <<>>

\* The sum of the amountToReturn of the leaves at the positions
RECURSIVE SumOfAmountsToReturn(_, _)
SumOfAmountsToReturn(leaves, positions) ==
  IF positions = {} THEN 0
  ELSE LET i == CHOOSE p \in positions : TRUE
       IN leaves[i].amountToReturn + SumOfAmountsToReturn(leaves, positions \ {i})

\* C20: In buildRelayerRefundRoot, for every pool rebalance leaf position with
\* netSendAmount < 0: if no refund leaf for (leaf chainId, L2 counterpart of the
\* L1 token) exists, exactly one leaf is appended for that pair, with empty
\* refundAddresses and refundAmounts and amountToReturn equal to -netSendAmount
\* (strictly positive); if such a refund leaf already exists, none is appended.
\* Hence in the final leaf list the amountToReturn values of a (chainId, l2Token)
\* pair sum to max(-netSendAmount, 0).
C20_ReturnOnlyLeavesForNegativeNetSend ==
  PoolBuiltAndRefundCalled =>
    /\ bundle.relayerRefundRoot[1].error = NoError
    /\ \A p \in PoolPositions :
         LET before == LeavesOfPair(bundle.relayerRefundLeaves, LeafChainAt(p), L2TokenAt(p))
             final == LeavesOfPair(RefundLeaves, LeafChainAt(p), L2TokenAt(p))
         IN /\ NetSendAmountAt(p) < 0 /\ ~HasRecipients(LeafChainAt(p), L2TokenAt(p)) =>
                 /\ Cardinality(before) = 1
                 /\ Cardinality(final) = 1
                 /\ \A i \in before :
                      /\ ReturnsOnly(bundle.relayerRefundLeaves[i])
                      /\ bundle.relayerRefundLeaves[i].groupIndex = 0
                 /\ \A i \in final :
                      /\ ReturnsOnly(RefundLeaves[i])
                      /\ RefundLeaves[i].amountToReturn = 0 - NetSendAmountAt(p)
                      /\ RefundLeaves[i].amountToReturn > 0
            /\ NetSendAmountAt(p) < 0 /\ HasRecipients(LeafChainAt(p), L2TokenAt(p)) =>
                 /\ \A i \in before : ~ReturnsOnly(bundle.relayerRefundLeaves[i])
                 /\ \A i \in final : ~ReturnsOnly(RefundLeaves[i])
            /\ NetSendAmountAt(p) >= 0 =>
                 /\ \A i \in final : ~ReturnsOnly(RefundLeaves[i])
                 /\ final = {} <=> ~HasRecipients(LeafChainAt(p), L2TokenAt(p))
            /\ SumOfAmountsToReturn(RefundLeaves, final) =
                 IF NetSendAmountAt(p) < 0 THEN 0 - NetSendAmountAt(p) ELSE 0
    /\ \A i \in DOMAIN RefundLeaves :
         \E p \in PoolPositions :
           LeafChainAt(p) = RefundLeaves[i].chainId /\ L2TokenAt(p) = RefundLeaves[i].l2TokenAddress

\* A position with a negative net send amount whose pair has no recipients and
\* got the one leaf that returns the amount, a position with a negative net send
\* amount whose pair has two refund leaves, and a position without a negative
\* net send amount.
C20_Witness ==
  /\ PoolBuiltAndRefundCalled
  /\ \E p \in PoolPositions :
       /\ NetSendAmountAt(p) < 0
       /\ ~HasRecipients(LeafChainAt(p), L2TokenAt(p))
       /\ \E i \in LeavesOfPair(RefundLeaves, LeafChainAt(p), L2TokenAt(p)) :
            ReturnsOnly(RefundLeaves[i]) /\ RefundLeaves[i].amountToReturn > 0
  /\ \E p \in PoolPositions :
       /\ NetSendAmountAt(p) < 0
       /\ HasRecipients(LeafChainAt(p), L2TokenAt(p))
       /\ Cardinality(LeavesOfPair(RefundLeaves, LeafChainAt(p), L2TokenAt(p))) >= 2
  /\ \E p \in PoolPositions :
       /\ NetSendAmountAt(p) >= 0
       /\ SumOfAmountsToReturn(RefundLeaves,
                               LeavesOfPair(RefundLeaves, LeafChainAt(p), L2TokenAt(p))) = 0

----------------------------------------------------------------------------
(* The sort and the indexing of the relayer refund leaves *)

RefundLeavesSorted == bundle.relayerRefundRoot # <<>>

\* The leaves as they were constructed, with their groupIndex
Constructed == bundle.relayerRefundLeaves

\* Two constructed leaves share (chainId, l2TokenAddress, groupIndex)
SharedKeys ==
  \E i, j \in DOMAIN Constructed :
    /\ i # j
    /\ Constructed[i].chainId = Constructed[j].chainId
    /\ Constructed[i].l2TokenAddress = Constructed[j].l2TokenAddress
    /\ Constructed[i].groupIndex = Constructed[j].groupIndex

\* Constructed leaf a comes strictly before constructed leaf b
RefundLeafBefore(a, b) ==
  \/ a.chainId < b.chainId
  \/ a.chainId = b.chainId /\ a.l2TokenAddress < b.l2TokenAddress
  \/ a.chainId = b.chainId /\ a.l2TokenAddress = b.l2TokenAddress /\ a.groupIndex < b.groupIndex

\* The returned leaf is the constructed leaf without its groupIndex
Returned(leaf, constructed) ==
  /\ DOMAIN leaf = DOMAIN constructed \ {"groupIndex"}
  /\ \A field \in DOMAIN leaf \ {"leafId"} : leaf[field] = constructed[field]

\* C21: The leaves returned by buildRelayerRefundRoot are strictly ascending by
\* chainId, then by l2TokenAddress, then by the groupIndex they were constructed
\* with; leaf k of the list has leafId k (0, 1, ..., n-1); no returned leaf has a
\* groupIndex field; and if two constructed leaves share (chainId,
\* l2TokenAddress, groupIndex) the build fails with an error and returns no root.
C21_RefundLeavesSortedIndexedOrThrown ==
  RefundLeavesSorted =>
    LET result == bundle.relayerRefundRoot[1]
    IN IF SharedKeys
       THEN result.error # NoError /\ result.leaves = <<>> /\ result.root = ""
       ELSE /\ result.error = NoError
            /\ Len(result.leaves) = Len(Constructed)
            /\ result.root # ""
            /\ \E from \in [DOMAIN result.leaves -> DOMAIN Constructed] :
                 /\ \A k, l \in DOMAIN result.leaves :
                      k < l => RefundLeafBefore(Constructed[from[k]], Constructed[from[l]])
                 /\ \A k \in DOMAIN result.leaves :
                      /\ Returned(result.leaves[k], Constructed[from[k]])
                      /\ result.leaves[k].leafId = k - 1
                      /\ "groupIndex" \notin DOMAIN result.leaves[k]

\* Three constructed leaves, the last two sharing the three keys and the first
\* of a later chain, and the error of the comparator.
C21_Witness ==
  /\ RefundLeavesSorted
  /\ Len(Constructed) = 3
  /\ Constructed[1].chainId > Constructed[2].chainId
  /\ Constructed[2].chainId = Constructed[3].chainId
  /\ Constructed[2].l2TokenAddress = Constructed[3].l2TokenAddress
  /\ Constructed[2].groupIndex = Constructed[3].groupIndex
  /\ bundle.relayerRefundRoot[1].error = "Unexpected leaf group indices match"
  /\ bundle.relayerRefundRoot[1].leaves = <<>>

----------------------------------------------------------------------------
(* The sort of the slow relay leaves *)

SlowRelayLeavesSorted == bundle.slowRelayRoot # <<>>

\* Two of the leaves given to the sort have equal (originChainId, depositId)
EqualSlowRelayKeys ==
  \E i, j \in DOMAIN bundle.slowRelayLeaves :
    /\ i # j
    /\ bundle.slowRelayLeaves[i].originChainId = bundle.slowRelayLeaves[j].originChainId
    /\ bundle.slowRelayLeaves[i].depositId = bundle.slowRelayLeaves[j].depositId

C22_EqualSlowRelayKeysReturnARoot ==
  (SlowRelayLeavesSorted /\ EqualSlowRelayKeys) =>
    /\ bundle.slowRelayRoot[1].error = NoError
    /\ Len(bundle.slowRelayRoot[1].leaves) = Len(bundle.slowRelayLeaves)
    /\ bundle.slowRelayRoot[1].root # ""
    /\ \A k, l \in DOMAIN bundle.slowRelayRoot[1].leaves :
         k < l => ~StrictlyBefore(bundle.slowRelayRoot[1].leaves[l],
                                  bundle.slowRelayRoot[1].leaves[k])

----------------------------------------------------------------------------
(* The preconditions of _loadData *)

\* One of the preconditions is broken by what the call is given
PreconditionBroken ==
  \/ ~hubPoolClient.isUpdated
  \/ ~configStoreClient.isUpdated
  \/ \E chainId \in spokePoolSigners :
       \/ chainId \notin DOMAIN bundle.spokePoolClients
       \/ ~bundle.spokePoolClients[chainId].isUpdated
  \/ Len(bundle.blockRangesForChains) # Len(chainIdListForBundleEvaluationBlockNumbers)

PreconditionErrors ==
  {"HubPoolClient not updated", "ConfigStoreClient not updated",
   "Missing spoke pool client for chain", "Unexpected block range list length",
   "origin SpokePoolClient not updated", "destination SpokePoolClient not updated"}

\* The call threw one of the precondition errors and returned nothing
FailedWith(result, outputs) ==
  /\ result.error \in PreconditionErrors
  /\ \A field \in outputs : result[field] = <<>>

\* C23: _loadData (and so each root builder) fails with a precondition error and
\* produces no output if the HubPool client is not updated, the ConfigStore
\* client is not updated, some chain the loader iterates over has no SpokePool
\* client or a SpokePool client that is not updated, or the block-range list
\* length differs from the chain-ID list length.
C23_BrokenPreconditionFailsEveryCall ==
  /\ bundle.data # <<>> =>
       IF PreconditionBroken
       THEN FailedWith(bundle.data[1], {"fillsToRefund", "deposits", "unfilledDeposits",
                                        "allValidFills"})
       ELSE bundle.data[1].error = NoError
  /\ bundle.poolRebalanceRoot # <<>> =>
       IF PreconditionBroken
       THEN /\ FailedWith(bundle.poolRebalanceRoot[1], {"leaves"})
            /\ bundle.poolRebalanceRoot[1].root = ""
       ELSE bundle.poolRebalanceRoot[1].error = NoError
  /\ bundle.relayerRefundRoot # <<>> =>
       IF PreconditionBroken
       THEN /\ FailedWith(bundle.relayerRefundRoot[1], {"leaves"})
            /\ bundle.relayerRefundRoot[1].root = ""
       ELSE bundle.relayerRefundRoot[1].error = NoError
  /\ bundle.slowRelayRoot # <<>> =>
       IF PreconditionBroken
       THEN /\ FailedWith(bundle.slowRelayRoot[1], {"leaves"})
            /\ bundle.slowRelayRoot[1].root = ""
       ELSE bundle.slowRelayRoot[1].error = NoError

\* All four calls made with updated HubPool and ConfigStore clients and block
\* ranges of the right length, the SpokePool client of chain 10 not updated: each
\* call threw.
C23_Witness ==
  /\ hubPoolClient.isUpdated
  /\ configStoreClient.isUpdated
  /\ Len(bundle.blockRangesForChains) = Len(chainIdListForBundleEvaluationBlockNumbers)
  /\ DOMAIN bundle.spokePoolClients = Chains
  /\ bundle.spokePoolClients[1].isUpdated
  /\ ~bundle.spokePoolClients[10].isUpdated
  /\ bundle.data # <<>> /\ bundle.data[1].error = "destination SpokePoolClient not updated"
  /\ bundle.poolRebalanceRoot # <<>> /\ bundle.poolRebalanceRoot[1].error # NoError
  /\ bundle.relayerRefundRoot # <<>> /\ bundle.relayerRefundRoot[1].error # NoError
  /\ bundle.slowRelayRoot # <<>> /\ bundle.slowRelayRoot[1].error # NoError


----------------------------------------------------------------------------
(* C24: a failing enqueueTransaction                                        *)

\* The cycle handed a transaction to the multi-caller and the call threw.
EnqueueFailed(c) == c.done /\ c.enqueueThrew

\* C24: when enqueueTransaction throws while a proposal or a dispute is
\* submitted, the controller has returned without an error, the last message
\* it logged is the error of the catch block for that transaction, and the
\* queue of the multi-caller is as it was when the cycle started.
C24_EnqueueFailureIsCaughtAndLogged ==
  EnqueueFailed(cycle) =>
    /\ cycle.thrown = NoError
    /\ pc = "idle"
    /\ Len(cycle.enqueued) = 1
    /\ cycle.enqueued[1].method \in {"proposeRootBundle", "disputeRootBundle"}
    /\ Len(cycle.logs) > 0
    /\ cycle.logs[Len(cycle.logs)] = EnqueueErrorMessage(cycle.enqueued[1])
    /\ transactions = cycle.queueBefore

\* A dispute whose enqueueTransaction threw
C24_Witness ==
  /\ EnqueueFailed(cycle)
  /\ cycle.op = "validate"
  /\ cycle.enqueued[1].method = "disputeRootBundle"
  /\ transactions = <<>>

\* A proposal whose enqueueTransaction threw
C24_ProposalWitness ==
  /\ EnqueueFailed(cycle)
  /\ cycle.op = "propose"
  /\ cycle.enqueued[1].method = "proposeRootBundle"
  /\ transactions = <<>>


----------------------------------------------------------------------------
(* C25: a proposal of proposeRootBundle under validateRootBundle            *)

\* What proposeRootBundle does for a proposer whose getBlockNumber() queries
\* returned the pending end blocks, on the events and the next bundle start
\* blocks the cycle has.
ProposerOutcome(c) ==
  proposeRootBundleFromBlockRange(
    UpdatedClients,
    _getWidestPossibleExpectedBlockRange(c.clients.hubPoolClient, PendingEnds(c)),
    spokePoolEvents)

\* The pending proposal carries the arguments of the transaction that
\* proposeRootBundle enqueues for some latest block numbers (they are its end
\* blocks).
HonestlyProposed(c) ==
  /\ Len(PendingEnds(c)) = NumChains
  /\ Len(ProposerOutcome(c).enqueue) = 1
  /\ ProposerOutcome(c).enqueue[1].method = "proposeRootBundle"
  /\ ProposerOutcome(c).enqueue[1].args =
       <<PendingEnds(c), PendingOf(c).unclaimedPoolRebalanceLeafCount,
         PendingOf(c).poolRebalanceRoot, PendingOf(c).relayerRefundRoot,
         PendingOf(c).slowRelayRoot>>

\* validateRootBundle ran inside the challenge window on a proposal of
\* proposeRootBundle, and read latest block numbers at least the proposer's.
HonestRoundTrip(c) ==
  /\ InWindow(c)
  /\ HonestlyProposed(c)
  /\ Len(c.reads) = NumChains
  /\ \A i \in 1..NumChains : ExpectedEnd(c, i) >= PendingEnds(c)[i]

\* The proposer's latest block of some chain was below the next bundle start
\* block of the chain.
ProposerBelowStart(c) == \E i \in 1..NumChains : PendingEnds(c)[i] < ExpectedStart(c, i)

EnqueuedADispute(c) == \E i \in DOMAIN c.enqueued : c.enqueued[i].method = "disputeRootBundle"

\* C25: a validateRootBundle cycle that runs inside the challenge window on a
\* proposal enqueued by proposeRootBundle, with the same events and next bundle
\* start blocks and latest block numbers not below the proposer's, enqueues no
\* disputeRootBundle, also when the proposer's latest block of a chain was
\* below the chain's next bundle start block.
C25_HonestProposalNeverDisputed == HonestRoundTrip(cycle) => ~EnqueuedADispute(cycle)

\* The same for the proposals whose end blocks are all at or above the next
\* bundle start blocks: the cycle enqueues nothing, and when its ConfigStore
\* client is updated it rebuilds the roots and finds them equal.
C25_HonestProposalInRangeNeverDisputed ==
  (HonestRoundTrip(cycle) /\ ~ProposerBelowStart(cycle)) =>
    /\ EnqueuedNothing(cycle)
    /\ cycle.clients.configStoreClient.isUpdated =>
         /\ Rebuilt(cycle)
         /\ cycle.thrown = NoError
         /\ MatchesMessage \in Range(cycle.logs)

\* A proposal of proposeRootBundle made with a latest block below the start
\* block, disputed by validateRootBundle for its end block.
C25_Witness ==
  /\ HonestRoundTrip(cycle)
  /\ ProposerBelowStart(cycle)
  /\ Disputed(cycle)
  /\ BlockRangeVerdictMessage("belowStart") \in Range(cycle.logs)

\* A proposal of proposeRootBundle inside the expected ranges, accepted
C25_InRangeWitness ==
  /\ HonestRoundTrip(cycle)
  /\ ~ProposerBelowStart(cycle)
  /\ EnqueuedNothing(cycle)
  /\ MatchesMessage \in Range(cycle.logs)


----------------------------------------------------------------------------
(* C26: what a sequence of cycles hands to the multi-caller                 *)

\* The number of cycles started in the sequence
CyclesStarted == cycles - (MaxCycles - MaxSequence)

ProposalsAndDisputes == {"proposeRootBundle", "disputeRootBundle"}

\* C26: over a sequence of proposeRootBundle and validateRootBundle cycles,
\* every cycle hands at most one transaction to the multi-caller, so the queue
\* is the queue the cycle found with at most that transaction after it and is
\* never longer than the number of cycles started; a proposeRootBundle
\* transaction comes from a propose cycle whose HubPool client was updated and
\* reported no pending proposal, and a disputeRootBundle transaction has no
\* arguments and comes from a validate cycle whose HubPool client reported a
\* pending proposal with the current time at or before its
\* challengePeriodEndTimestamp.
C26_AtMostOneTransactionPerCycleAndOnlyWhenDue ==
  /\ Len(cycle.enqueued) <= 1
  /\ transactions \in {cycle.queueBefore, cycle.queueBefore \o cycle.enqueued}
  /\ Len(transactions) <= CyclesStarted
  /\ \A i \in DOMAIN transactions : transactions[i].method \in ProposalsAndDisputes
  /\ \A i \in DOMAIN cycle.enqueued :
       /\ cycle.enqueued[i].method \in ProposalsAndDisputes
       /\ cycle.enqueued[i].method = "proposeRootBundle" => ProposedFresh(cycle)
       /\ cycle.enqueued[i].method = "disputeRootBundle" =>
            /\ cycle.enqueued[i].args = <<>>
            /\ InWindow(cycle)

\* The second cycle of a sequence disputes the pending proposal that the first
\* cycle disputed, and the queue holds both disputes.
C26_Witness ==
  /\ CyclesStarted = 2
  /\ Disputed(cycle)
  /\ InWindow(cycle)
  /\ Len(cycle.queueBefore) = 1
  /\ cycle.queueBefore[1].method = "disputeRootBundle"
  /\ Len(transactions) = 2

\* A propose cycle that proposes after a validate cycle that found nothing
\* pending.
C26_ProposalWitness ==
  /\ CyclesStarted = 2
  /\ ProposedFresh(cycle)
  /\ Len(cycle.enqueued) = 1
  /\ cycle.enqueued[1].method = "proposeRootBundle"
  /\ transactions = cycle.enqueued


----------------------------------------------------------------------------
(* C27: the chunking loop ends                                              *)

\* The loop runs: maxRefundCount is chosen and the loop has not ended
InLoop == bundle.pc = "loop"

LoopEnded == bundle.pc = "done"

RecipientsOfGroup == Len(bundle.sortedRefunds)

SubLeavesPushed == Len(bundle.relayerRefundLeaves)

\* ceil(n / maxRefundCount), for a positive maxRefundCount
CeilDiv(n, maxRefundCount) == (n + maxRefundCount - 1) \div maxRefundCount

\* C27: for every maxRefundCount the build can obtain (the override, or the
\* ConfigStore value when the override is unset or 0) the chunking loop of a
\* group with n recipients ends after ceil(n / maxRefundCount) sub-leaves: each
\* sub-leaf takes at least one recipient, so the loop has never pushed more
\* sub-leaves than the group has recipients, and when it has ended with a
\* positive maxRefundCount it has pushed ceil(n / maxRefundCount).
C27_ChunkingLoopEndsForEveryMaxRefundCount ==
  /\ SubLeavesPushed <= RecipientsOfGroup
  /\ \A j \in DOMAIN bundle.relayerRefundLeaves :
       Len(bundle.relayerRefundLeaves[j].refundAddresses) >= 1
  /\ (LoopEnded /\ bundle.maxRefundCount > 0) =>
       SubLeavesPushed = CeilDiv(RecipientsOfGroup, bundle.maxRefundCount)

\* With a maxRefundCount of at least 1 the loop ends: it is never stopped short
\* of its end, i advances with every sub-leaf, no more than ceil(n /
\* maxRefundCount) sub-leaves are pushed, and at the end the sub-leaves are the
\* chunks of the sorted recipients.
C27_PositiveMaxRefundCountEnds ==
  (bundle.pc # "select" /\ bundle.maxRefundCount > 0) =>
    /\ LoopEnded \/ ENABLED ChunkNext
    /\ bundle.i = SubLeavesPushed * bundle.maxRefundCount
    /\ SubLeavesPushed <= CeilDiv(RecipientsOfGroup, bundle.maxRefundCount)
    /\ LoopEnded =>
         bundle.relayerRefundLeaves =
           RefundSubLeaves(ChunkedGroup, bundle.sortedRefunds, bundle.amountToReturn,
                           bundle.maxRefundCount)

\* The override is unset and the ConfigStore holds 0: the loop has pushed more
\* sub-leaves than the group has recipients, each without a recipient, and i is
\* still 0.
C27_Witness ==
  /\ InLoop
  /\ bundle.override = 0
  /\ bundle.maxRefundCount = 0
  /\ RecipientsOfGroup = 1
  /\ SubLeavesPushed > RecipientsOfGroup
  /\ bundle.i = 0
  /\ bundle.i < RecipientsOfGroup

\* A negative override: i moves away from the length of the list
C27_NegativeOverrideWitness ==
  /\ InLoop
  /\ bundle.override < 0
  /\ SubLeavesPushed > RecipientsOfGroup
  /\ bundle.i < 0

\* Three recipients in chunks of two
C27_PositiveWitness ==
  /\ LoopEnded
  /\ bundle.maxRefundCount = 2
  /\ RecipientsOfGroup = 3
  /\ SubLeavesPushed = 2

====
